---- MODULE Spec2Model ----
(***************************************************************************)
(* Model of the Airtable MCP server's query-formula compiler               *)
(* (src/src/utils/query-helpers.ts).                                       *)
(*                                                                         *)
(* JavaScript strings are sequences of one-character strings; a formula is *)
(* the sequence of its characters, so quoting and grouping are checked on  *)
(* the text the builders really produce.  A call is one step: the action   *)
(* of a function draws its arguments, runs the function as the code does   *)
(* and records whether it returned or threw.                               *)
(*                                                                         *)
(* Two specifications: Spec calls the helpers, the client's methods and    *)
(* single tool handlers one at a time; ServerSpec is the server process    *)
(* (src/src/index.ts): startup, the tool calls in flight, the schema cache *)
(* of the client (src/src/utils/airtable-client.ts).                       *)
(***************************************************************************)
EXTENDS Integers, Sequences, FiniteSets, TLC

VARIABLES
    pc,        \* "idle": no call in progress; "awaiting": a tool call awaits
               \* client.listRecords; "requesting": a client method awaits
               \* Airtable; "done": a call has completed
    call,      \* the call that completed: [fn |-> name, ...arguments]
    outcome,   \* [status |-> "returned" | "threw", value |-> ..., error |-> ...]
    executor,  \* the requests the tool call in progress gave to client.listRecords
    requests,  \* the requests sent to Airtable: in Spec those of the call in
               \* progress, in ServerSpec call id -> the requests of the call
    phase,     \* where main() is: "starting", "validating" (the credentials
               \* request is in flight), "serving", "exited"
    config,    \* getConfig(): [apiKey |-> ..., baseId |-> ...]
    credentials, \* what the credentials request of validateCredentials met
    tableSchemas, \* the client's schema cache: table name -> schema
    calls,     \* the tool calls received: call id -> tool, arguments, position,
               \* the formula it built and the schema getTableSchema gave it
    responses  \* call id -> the responses sent to the MCP client for the call

serverVars == <<phase, config, credentials, tableSchemas, calls, responses>>

vars == <<pc, call, outcome, executor, requests, serverVars>>

(***************************************************************************)
(* Bounds of the model                                                     *)
(***************************************************************************)
MaxStrLen == 4      \* longest string given to the sanitizers
MaxValues == 2      \* most values / labels in one list argument
MaxAge == 5         \* ages range over 0..MaxAge
MaxNum == 2         \* finite numeric bounds range over -MaxNum..MaxNum
MaxFormulas == 3    \* most formulas given to a combinator
MaxConditions == 2  \* most conditions of one airtable_smart_query call
MaxWords == 2       \* most words of the message of a thrown Error
MaxSegments == 3    \* most segments of the message of an AirtableAPIError
MaxCalls == 2       \* most tool calls the server process receives

(***************************************************************************)
(* Strings and JavaScript values                                           *)
(***************************************************************************)
Strs(chars, n) == UNION {[1..k -> chars] : k \in 0..n}

SeqsUpTo(S, n) == UNION {[1..k -> S] : k \in 0..n}

RECURSIVE Flatten(_)
Flatten(ss) == IF ss = <<>> THEN <<>> ELSE Head(ss) \o Flatten(Tail(ss))

\* Array.prototype.join(sep)
RECURSIVE Join(_, _)
Join(ss, sep) ==
    IF ss = <<>> THEN <<>>
    ELSE IF Len(ss) = 1 THEN ss[1]
    ELSE ss[1] \o sep \o Join(Tail(ss), sep)

\* String.prototype.includes(sub)
Includes(s, sub) ==
    \E i \in 0..(Len(s) - Len(sub)) :
        \A j \in 1..Len(sub) : s[i + j] = sub[j]

Undefined == [t |-> "undefined"]
Null == [t |-> "null"]
NaN == [t |-> "nan"]
PosInf == [t |-> "inf"]
NegInf == [t |-> "ninf"]
Num(n) == [t |-> "num", v |-> n]

NoValue == <<>>
NoError == [class |-> "none", message |-> <<>>]

Returned(v) == [status |-> "returned", value |-> v, error |-> NoError]
\* `throw new Error(message)`
Threw(cls, msg) == [status |-> "threw", value |-> NoValue,
                    error |-> [class |-> cls, message |-> msg]]

\* no outcome yet
NoOutcome == [status |-> "none", value |-> NoValue, error |-> NoError]

(***************************************************************************)
(* Sanitizers                                                              *)
(***************************************************************************)
Quote == "'"
Backslash == "\\"

\* escapeFormulaString as if it left every quote alone
escapeFormulaString_noEscape(str) == str

\* escapeFormulaString as if it escaped with a backslash: ' becomes \'
escapeFormulaString_backslash(str) ==
    Flatten([i \in 1..Len(str) |->
                IF str[i] = "'" THEN <<"\\", "'">> ELSE <<str[i]>>])

\* escapeFormulaString as if the pattern had no g flag: only the first quote
\* is doubled
RECURSIVE escapeFormulaString_firstOnly(_)
escapeFormulaString_firstOnly(str) ==
    IF str = <<>> THEN <<>>
    ELSE IF Head(str) = "'" THEN <<"'", "'">> \o Tail(str)
    ELSE <<Head(str)>> \o escapeFormulaString_firstOnly(Tail(str))

\* str.replace(/'/g, "''")
RECURSIVE escapeFormulaString(_)
escapeFormulaString(str) ==
    IF str = <<>> THEN <<>>
    ELSE IF Head(str) = Quote
         THEN <<Quote, Quote>> \o escapeFormulaString(Tail(str))
         ELSE <<Head(str)>> \o escapeFormulaString(Tail(str))

\* the characters String.prototype.trim() strips
WhiteSpace == {" ", "\t", "\n", "\r"}

\* the character class [{}\n\r]
ForbiddenNameChars == {"{", "}", "\n", "\r"}

RECURSIVE TrimStart(_)
TrimStart(s) ==
    IF s # <<>> /\ Head(s) \in WhiteSpace THEN TrimStart(Tail(s)) ELSE s

RECURSIVE TrimEnd(_)
TrimEnd(s) ==
    IF s # <<>> /\ s[Len(s)] \in WhiteSpace
    THEN TrimEnd(SubSeq(s, 1, Len(s) - 1)) ELSE s

\* String.prototype.trim()
Trim(s) == TrimEnd(TrimStart(s))

MsgInvalidFieldName ==
    <<"I", "n", "v", "a", "l", "i", "d", " ", "f", "i", "e", "l", "d", " ",
      "n", "a", "m", "e", ":", " ", "c", "o", "n", "t", "a", "i", "n", "s",
      " ", "f", "o", "r", "b", "i", "d", "d", "e", "n", " ", "c", "h", "a",
      "r", "a", "c", "t", "e", "r", "s", " ", "(", "{", "}", ",", " ", "n",
      "e", "w", "l", "i", "n", "e", "s", ")">>

MsgFieldNameEmpty ==
    <<"F", "i", "e", "l", "d", " ", "n", "a", "m", "e", " ", "c", "a", "n",
      "n", "o", "t", " ", "b", "e", " ", "e", "m", "p", "t", "y">>

\* sanitizeFieldName as if the pattern were /[{}]/, line breaks let through
sanitizeFieldName_noLineBreaks(fieldName) ==
    IF \E i \in 1..Len(fieldName) : fieldName[i] \in {"{", "}"}
    THEN Threw("Error", MsgInvalidFieldName)
    ELSE LET trimmed == Trim(fieldName)
         IN  IF Len(trimmed) = 0
             THEN Threw("Error", MsgFieldNameEmpty)
             ELSE Returned(trimmed)

sanitizeFieldName(fieldName) ==
    IF \E i \in 1..Len(fieldName) : fieldName[i] \in ForbiddenNameChars
    THEN Threw("Error", MsgInvalidFieldName)
    ELSE LET trimmed == Trim(fieldName)
         IN  IF Len(trimmed) = 0
             THEN Threw("Error", MsgFieldNameEmpty)
             ELSE Returned(trimmed)

(***************************************************************************)
(* Age-range buckets                                                       *)
(***************************************************************************)
Digits == {"0", "1", "2", "3", "4", "5", "6", "7", "8", "9"}

DigitVal(c) ==
    CASE c = "0" -> 0 [] c = "1" -> 1 [] c = "2" -> 2 [] c = "3" -> 3
      [] c = "4" -> 4 [] c = "5" -> 5 [] c = "6" -> 6 [] c = "7" -> 7
      [] c = "8" -> 8 [] c = "9" -> 9

\* the value of the longest prefix of decimal digits of s, starting from acc;
\* <<value, number of digits read>>
RECURSIVE DigitPrefix(_, _, _)
DigitPrefix(s, acc, n) ==
    IF s # <<>> /\ Head(s) \in Digits
    THEN DigitPrefix(Tail(s), 10 * acc + DigitVal(Head(s)), n + 1)
    ELSE <<acc, n>>

\* parseInt(string) with no radix: leading white space is skipped, a sign is
\* read, then the longest run of decimal digits; no digit gives NaN.  (The
\* "0x" prefix is not modelled: no input of the model has a "0".)
ParseInt(str) ==
    LET s == TrimStart(str)
        signed == s # <<>> /\ Head(s) \in {"+", "-"}
        body == IF signed THEN Tail(s) ELSE s
        d == DigitPrefix(body, 0, 0)
    IN  IF d[2] = 0 THEN NaN
        ELSE IF signed /\ Head(s) = "-" THEN Num(0 - d[1]) ELSE Num(d[1])

\* String.prototype.split(sep) for a one-character separator
RECURSIVE SplitFrom(_, _, _)
SplitFrom(s, sep, cur) ==
    IF s = <<>> THEN <<cur>>
    ELSE IF Head(s) = sep THEN <<cur>> \o SplitFrom(Tail(s), sep, <<>>)
    ELSE SplitFrom(Tail(s), sep, Append(cur, Head(s)))

Split(s, sep) == SplitFrom(s, sep, <<>>)

\* str.replace(c, ''): a string pattern replaces the first occurrence only
RECURSIVE RemoveFirst(_, _)
RemoveFirst(s, c) ==
    IF s = <<>> THEN <<>>
    ELSE IF Head(s) = c THEN Tail(s)
    ELSE <<Head(s)>> \o RemoveFirst(Tail(s), c)

\* parseInt(parts[i]): an index past the end reads undefined, which parses
\* to NaN
ParseIntAt(parts, i) == IF i <= Len(parts) THEN ParseInt(parts[i]) ELSE NaN

parseAgeRange(rangeStr) ==
    LET parts == Split(rangeStr, "-")
    IN  IF Includes(rangeStr, <<"+">>)
        THEN [id |-> <<>>, name |-> rangeStr,
              minAge |-> ParseInt(RemoveFirst(rangeStr, "+")),
              maxAge |-> Null]
        ELSE [id |-> <<>>, name |-> rangeStr,
              minAge |-> ParseIntAt(parts, 1),
              maxAge |-> ParseIntAt(parts, 2)]

\* a <= b on JavaScript numbers: false as soon as one side is NaN
JsLe(a, b) == a.t = "num" /\ b.t = "num" /\ a.v <= b.v

\* Overlaps as if the bucket had to start strictly below maxAge
Overlaps_strict(range, minAge, maxAge) ==
    IF range.maxAge.t = "null"
    THEN JsLe(range.minAge, Num(maxAge))
    ELSE JsLe(range.minAge, Num(maxAge - 1)) /\ JsLe(Num(minAge), range.maxAge)

\* whether the loop body of findOverlappingAgeRanges pushes range.name
Overlaps(range, minAge, maxAge) ==
    IF range.maxAge.t = "null"
    THEN JsLe(range.minAge, Num(maxAge))
    ELSE JsLe(range.minAge, Num(maxAge)) /\ JsLe(Num(minAge), range.maxAge)

RECURSIVE OverlapLoop(_, _, _)
OverlapLoop(parsedRanges, minAge, maxAge) ==
    IF parsedRanges = <<>> THEN <<>>
    ELSE (IF Overlaps(Head(parsedRanges), minAge, maxAge)
          THEN <<Head(parsedRanges).name>> ELSE <<>>)
         \o OverlapLoop(Tail(parsedRanges), minAge, maxAge)

findOverlappingAgeRanges(minAge, maxAge, availableRanges) ==
    LET parsedRanges ==
            [i \in 1..Len(availableRanges) |-> parseAgeRange(availableRanges[i])]
    IN  OverlapLoop(parsedRanges, minAge, maxAge)

(***************************************************************************)
(* Formula text                                                            *)
(***************************************************************************)
TxtFalse == <<"F", "A", "L", "S", "E", "(", ")">>
TxtTrue == <<"T", "R", "U", "E", "(", ")">>
TxtComma == <<",", " ">>

\* `{${sanitizedFieldName}} = '${escapedRange}'`
AgeLeaf(sanitizedFieldName, range) ==
    <<"{">> \o sanitizedFieldName \o <<"}", " ", "=", " ", "'">>
            \o escapeFormulaString(range) \o <<"'">>

\* `FIND('${escaped}', ARRAYJOIN({${sanitizedFieldName}}))`
FindLeaf(sanitizedFieldName, value) ==
    <<"F", "I", "N", "D", "(", "'">> \o escapeFormulaString(value)
        \o <<"'", ",", " ", "A", "R", "R", "A", "Y", "J", "O", "I", "N", "(", "{">>
        \o sanitizedFieldName \o <<"}", ")", ")">>

Wrap(head, conditions) == head \o Join(conditions, TxtComma) \o <<")">>

TxtOr == <<"O", "R", "(">>
TxtAnd == <<"A", "N", "D", "(">>
TxtNot == <<"N", "O", "T", "(">>

\* buildAgeRangeFormula as if a single overlapping bucket were wrapped in OR
\* like several
buildAgeRangeFormula_alwaysOr(fieldName, minAge, maxAge, availableRanges) ==
    LET san == sanitizeFieldName(fieldName)
        overlappingRanges == findOverlappingAgeRanges(minAge, maxAge, availableRanges)
        conditions == [i \in 1..Len(overlappingRanges) |->
                          AgeLeaf(san.value, overlappingRanges[i])]
    IN  IF san.status = "threw" THEN san
        ELSE IF Len(overlappingRanges) = 0 THEN Returned(TxtFalse)
        ELSE Returned(Wrap(TxtOr, conditions))

buildAgeRangeFormula(fieldName, minAge, maxAge, availableRanges) ==
    LET san == sanitizeFieldName(fieldName)
        overlappingRanges == findOverlappingAgeRanges(minAge, maxAge, availableRanges)
        conditions == [i \in 1..Len(overlappingRanges) |->
                          AgeLeaf(san.value, overlappingRanges[i])]
    IN  IF san.status = "threw" THEN san
        ELSE IF Len(overlappingRanges) = 0 THEN Returned(TxtFalse)
        ELSE IF Len(overlappingRanges) = 1
             THEN Returned(AgeLeaf(san.value, overlappingRanges[1]))
        ELSE Returned(Wrap(TxtOr, conditions))

\* an optional string argument: Undefined, or Str(characters)
Str(s) == [t |-> "string", v |-> s]

\* `if (x)` on an optional string: undefined and the empty string are falsy
Truthy(x) == x.t = "string" /\ Len(x.v) > 0

(***************************************************************************)
(* Fuzzy resolver                                                          *)
(***************************************************************************)
\* String.prototype.toLowerCase() on one character
LowerChar(c) ==
    CASE c = "A" -> "a" [] c = "B" -> "b" [] c = "C" -> "c" [] c = "D" -> "d"
      [] c = "E" -> "e" [] c = "F" -> "f" [] c = "G" -> "g" [] c = "H" -> "h"
      [] c = "I" -> "i" [] c = "J" -> "j" [] c = "K" -> "k" [] c = "L" -> "l"
      [] c = "M" -> "m" [] c = "N" -> "n" [] c = "O" -> "o" [] c = "P" -> "p"
      [] c = "Q" -> "q" [] c = "R" -> "r" [] c = "S" -> "s" [] c = "T" -> "t"
      [] c = "U" -> "u" [] c = "V" -> "v" [] c = "W" -> "w" [] c = "X" -> "x"
      [] c = "Y" -> "y" [] c = "Z" -> "z" [] OTHER -> c

ToLowerCase(s) == [i \in 1..Len(s) |-> LowerChar(s[i])]

fuzzyMatchOptions(searchTerm, availableOptions) ==
    LET lowerSearch == ToLowerCase(searchTerm)
        Hit(option) == Includes(ToLowerCase(option), lowerSearch)
    IN  SelectSeq(availableOptions, Hit)

\* Set.prototype.add on a Set kept in insertion order
SetAdd(set, x) ==
    IF \E i \in 1..Len(set) : set[i] = x THEN set ELSE Append(set, x)

RECURSIVE SetAddAll(_, _)
SetAddAll(set, xs) ==
    IF xs = <<>> THEN set ELSE SetAddAll(SetAdd(set, Head(xs)), Tail(xs))

\* the for loop of resolveOptionsWithFuzzyMatch over the remaining values;
\* `if (exactMatch)` tests the found string itself, and '' is falsy
RECURSIVE ResolveLoop(_, _, _)
ResolveLoop(values, availableOptions, resolved) ==
    IF values = <<>> THEN resolved
    ELSE LET value == Head(values)
             Exact(opt) == ToLowerCase(opt) = ToLowerCase(value)
             exact == SelectSeq(availableOptions, Exact)
         IN  IF exact # <<>> /\ Truthy(Str(Head(exact)))
             THEN ResolveLoop(Tail(values), availableOptions,
                              SetAdd(resolved, Head(exact)))
             ELSE ResolveLoop(Tail(values), availableOptions,
                              SetAddAll(resolved,
                                        fuzzyMatchOptions(value, availableOptions)))

\* an optional array argument: Undefined, or Arr(elements)
Arr(v) == [t |-> "array", v |-> v]

resolveOptionsWithFuzzyMatch(values, availableOptions) ==
    IF availableOptions.t = "undefined" \/ Len(availableOptions.v) = 0
    THEN values
    ELSE ResolveLoop(values, availableOptions.v, <<>>)

(***************************************************************************)
(* Set-membership builders                                                 *)
(***************************************************************************)
\* useFuzzyMatch && availableOptions ? resolveOptionsWithFuzzyMatch(...) : values
ResolvedValues(values, availableOptions, useFuzzyMatch) ==
    IF useFuzzyMatch /\ availableOptions.t # "undefined"
    THEN resolveOptionsWithFuzzyMatch(values, availableOptions)
    ELSE values

FindLeaves(sanitizedFieldName, resolvedValues) ==
    [i \in 1..Len(resolvedValues) |-> FindLeaf(sanitizedFieldName, resolvedValues[i])]

\* buildMultipleSelectHasAny as if it joined its leaves with AND
buildMultipleSelectHasAny_and(fieldName, values, availableOptions, useFuzzyMatch) ==
    LET san == sanitizeFieldName(fieldName)
        resolvedValues == ResolvedValues(values, availableOptions, useFuzzyMatch)
    IN  IF san.status = "threw" THEN san
        ELSE IF Len(values) = 0 THEN Returned(TxtFalse)
        ELSE IF Len(resolvedValues) = 0 THEN Returned(TxtFalse)
        ELSE IF Len(resolvedValues) = 1
             THEN Returned(FindLeaf(san.value, resolvedValues[1]))
        ELSE Returned(Wrap(TxtAnd, FindLeaves(san.value, resolvedValues)))

buildMultipleSelectHasAny(fieldName, values, availableOptions, useFuzzyMatch) ==
    LET san == sanitizeFieldName(fieldName)
        resolvedValues == ResolvedValues(values, availableOptions, useFuzzyMatch)
    IN  IF san.status = "threw" THEN san
        ELSE IF Len(values) = 0 THEN Returned(TxtFalse)
        ELSE IF Len(resolvedValues) = 0 THEN Returned(TxtFalse)
        ELSE IF Len(resolvedValues) = 1
             THEN Returned(FindLeaf(san.value, resolvedValues[1]))
        ELSE Returned(Wrap(TxtOr, FindLeaves(san.value, resolvedValues)))

\* buildMultipleSelectHasAll as if a single leaf were returned without AND
buildMultipleSelectHasAll_bareSingle(fieldName, values, availableOptions, useFuzzyMatch) ==
    LET san == sanitizeFieldName(fieldName)
        resolvedValues == ResolvedValues(values, availableOptions, useFuzzyMatch)
    IN  IF san.status = "threw" THEN san
        ELSE IF Len(values) = 0 THEN Returned(TxtTrue)
        ELSE IF Len(resolvedValues) = 0 THEN Returned(TxtTrue)
        ELSE IF Len(resolvedValues) = 1
             THEN Returned(FindLeaf(san.value, resolvedValues[1]))
        ELSE Returned(Wrap(TxtAnd, FindLeaves(san.value, resolvedValues)))

buildMultipleSelectHasAll(fieldName, values, availableOptions, useFuzzyMatch) ==
    LET san == sanitizeFieldName(fieldName)
        resolvedValues == ResolvedValues(values, availableOptions, useFuzzyMatch)
    IN  IF san.status = "threw" THEN san
        ELSE IF Len(values) = 0 THEN Returned(TxtTrue)
        ELSE IF Len(resolvedValues) = 0 THEN Returned(TxtTrue)
        ELSE Returned(Wrap(TxtAnd, FindLeaves(san.value, resolvedValues)))

\* buildMultipleSelectHasNone as if the template of several values lacked the
\* parenthesis that closes NOT(
buildMultipleSelectHasNone_unclosed(fieldName, values, availableOptions, useFuzzyMatch) ==
    LET san == sanitizeFieldName(fieldName)
        resolvedValues == ResolvedValues(values, availableOptions, useFuzzyMatch)
    IN  IF san.status = "threw" THEN san
        ELSE IF Len(values) = 0 THEN Returned(TxtTrue)
        ELSE IF Len(resolvedValues) = 0 THEN Returned(TxtTrue)
        ELSE IF Len(resolvedValues) = 1
             THEN Returned(TxtNot \o FindLeaf(san.value, resolvedValues[1]) \o <<")">>)
        ELSE Returned(TxtNot \o Wrap(TxtOr, FindLeaves(san.value, resolvedValues)))

\* buildMultipleSelectHasNone as if a single leaf were wrapped in OR too
buildMultipleSelectHasNone_orSingle(fieldName, values, availableOptions, useFuzzyMatch) ==
    LET san == sanitizeFieldName(fieldName)
        resolvedValues == ResolvedValues(values, availableOptions, useFuzzyMatch)
    IN  IF san.status = "threw" THEN san
        ELSE IF Len(values) = 0 THEN Returned(TxtTrue)
        ELSE IF Len(resolvedValues) = 0 THEN Returned(TxtTrue)
        ELSE Returned(TxtNot \o Wrap(TxtOr, FindLeaves(san.value, resolvedValues))
                             \o <<")">>)

buildMultipleSelectHasNone(fieldName, values, availableOptions, useFuzzyMatch) ==
    LET san == sanitizeFieldName(fieldName)
        resolvedValues == ResolvedValues(values, availableOptions, useFuzzyMatch)
    IN  IF san.status = "threw" THEN san
        ELSE IF Len(values) = 0 THEN Returned(TxtTrue)
        ELSE IF Len(resolvedValues) = 0 THEN Returned(TxtTrue)
        ELSE IF Len(resolvedValues) = 1
             THEN Returned(TxtNot \o FindLeaf(san.value, resolvedValues[1]) \o <<")">>)
        ELSE Returned(TxtNot \o Wrap(TxtOr, FindLeaves(san.value, resolvedValues))
                             \o <<")">>)

(***************************************************************************)
(* Numeric-range and date-range builders                                   *)
(***************************************************************************)
DigitChar(d) ==
    CASE d = 0 -> "0" [] d = 1 -> "1" [] d = 2 -> "2" [] d = 3 -> "3"
      [] d = 4 -> "4" [] d = 5 -> "5" [] d = 6 -> "6" [] d = 7 -> "7"
      [] d = 8 -> "8" [] d = 9 -> "9"

RECURSIVE NatToStr(_)
NatToStr(n) ==
    IF n < 10 THEN <<DigitChar(n)>>
    ELSE NatToStr(n \div 10) \o <<DigitChar(n % 10)>>

\* `${x}` for a JavaScript number x that is an integer or not finite
NumToStr(x) ==
    CASE x.t = "nan" -> <<"N", "a", "N">>
      [] x.t = "inf" -> <<"I", "n", "f", "i", "n", "i", "t", "y">>
      [] x.t = "ninf" -> <<"-", "I", "n", "f", "i", "n", "i", "t", "y">>
      [] x.t = "num" -> IF x.v < 0 THEN <<"-">> \o NatToStr(0 - x.v)
                        ELSE NatToStr(x.v)

MsgMinNotFinite ==
    <<"M", "i", "n", "i", "m", "u", "m", " ", "v", "a", "l", "u", "e", " ",
      "m", "u", "s", "t", " ", "b", "e", " ", "a", " ", "f", "i", "n", "i",
      "t", "e", " ", "n", "u", "m", "b", "e", "r">>

MsgMaxNotFinite ==
    <<"M", "a", "x", "i", "m", "u", "m", " ", "v", "a", "l", "u", "e", " ",
      "m", "u", "s", "t", " ", "b", "e", " ", "a", " ", "f", "i", "n", "i",
      "t", "e", " ", "n", "u", "m", "b", "e", "r">>

\* `{${sanitizedFieldName}} >= ${min}` and `... <= ${max}`
CompareLeaf(sanitizedFieldName, op, x) ==
    <<"{">> \o sanitizedFieldName \o <<"}", " ">> \o op \o <<" ">> \o NumToStr(x)

\* min !== undefined && min !== null
Supplied(x) == x.t \notin {"undefined", "null"}

\* Number.isFinite
IsFinite(x) == x.t = "num"

\* conditions.length of 0, 1 or more, shared by the two range builders
RangeResult(conditions) ==
    IF Len(conditions) = 0 THEN Returned(TxtTrue)
    ELSE IF Len(conditions) = 1 THEN Returned(conditions[1])
    ELSE Returned(Wrap(TxtAnd, conditions))

\* buildNumberRangeFormula as if only min were validated
buildNumberRangeFormula_maxUnchecked(fieldName, min, max) ==
    LET san == sanitizeFieldName(fieldName)
        minCond == IF Supplied(min)
                   THEN <<CompareLeaf(san.value, <<">", "=">>, min)>> ELSE <<>>
        maxCond == IF Supplied(max)
                   THEN <<CompareLeaf(san.value, <<"<", "=">>, max)>> ELSE <<>>
    IN  IF san.status = "threw" THEN san
        ELSE IF Supplied(min) /\ ~IsFinite(min) THEN Threw("Error", MsgMinNotFinite)
        ELSE RangeResult(minCond \o maxCond)

\* buildNumberRangeFormula as if the bounds were validated before the field
\* name
buildNumberRangeFormula_boundsFirst(fieldName, min, max) ==
    LET san == sanitizeFieldName(fieldName)
        minCond == IF Supplied(min)
                   THEN <<CompareLeaf(san.value, <<">", "=">>, min)>> ELSE <<>>
        maxCond == IF Supplied(max)
                   THEN <<CompareLeaf(san.value, <<"<", "=">>, max)>> ELSE <<>>
    IN  IF Supplied(min) /\ ~IsFinite(min) THEN Threw("Error", MsgMinNotFinite)
        ELSE IF Supplied(max) /\ ~IsFinite(max) THEN Threw("Error", MsgMaxNotFinite)
        ELSE IF san.status = "threw" THEN san
        ELSE RangeResult(minCond \o maxCond)

\* buildNumberRangeFormula as if the max leaf were pushed before the min leaf
buildNumberRangeFormula_maxFirst(fieldName, min, max) ==
    LET san == sanitizeFieldName(fieldName)
        minCond == IF Supplied(min)
                   THEN <<CompareLeaf(san.value, <<">", "=">>, min)>> ELSE <<>>
        maxCond == IF Supplied(max)
                   THEN <<CompareLeaf(san.value, <<"<", "=">>, max)>> ELSE <<>>
    IN  IF san.status = "threw" THEN san
        ELSE IF Supplied(min) /\ ~IsFinite(min) THEN Threw("Error", MsgMinNotFinite)
        ELSE IF Supplied(max) /\ ~IsFinite(max) THEN Threw("Error", MsgMaxNotFinite)
        ELSE RangeResult(maxCond \o minCond)

buildNumberRangeFormula(fieldName, min, max) ==
    LET san == sanitizeFieldName(fieldName)
        minCond == IF Supplied(min)
                   THEN <<CompareLeaf(san.value, <<">", "=">>, min)>> ELSE <<>>
        maxCond == IF Supplied(max)
                   THEN <<CompareLeaf(san.value, <<"<", "=">>, max)>> ELSE <<>>
    IN  IF san.status = "threw" THEN san
        ELSE IF Supplied(min) /\ ~IsFinite(min) THEN Threw("Error", MsgMinNotFinite)
        ELSE IF Supplied(max) /\ ~IsFinite(max) THEN Threw("Error", MsgMaxNotFinite)
        ELSE RangeResult(minCond \o maxCond)

\* the character class \d
IsDigitAt(s, i) == s[i] \in Digits

\* what `.` does not match
LineTerminators == {"\n", "\r"}

\* /^\d{4}-\d{2}-\d{2}(T\d{2}:\d{2}:\d{2}.*)?$/.test(s)
MatchesIsoDate(s) ==
    /\ Len(s) >= 10
    /\ \A i \in {1, 2, 3, 4, 6, 7, 9, 10} : IsDigitAt(s, i)
    /\ s[5] = "-" /\ s[8] = "-"
    /\ \/ Len(s) = 10
       \/ /\ Len(s) >= 19
          /\ s[11] = "T"
          /\ \A i \in {12, 13, 15, 16, 18, 19} : IsDigitAt(s, i)
          /\ s[14] = ":" /\ s[17] = ":"
          /\ \A i \in 20..Len(s) : s[i] \notin LineTerminators

MsgStartDateFormat ==
    <<"S", "t", "a", "r", "t", " ", "d", "a", "t", "e", " ", "m", "u", "s",
      "t", " ", "b", "e", " ", "i", "n", " ", "I", "S", "O", " ", "8", "6",
      "0", "1", " ", "f", "o", "r", "m", "a", "t", " ", "(", "Y", "Y", "Y",
      "Y", "-", "M", "M", "-", "D", "D", " ", "o", "r", " ", "Y", "Y", "Y",
      "Y", "-", "M", "M", "-", "D", "D", "T", "H", "H", ":", "m", "m", ":",
      "s", "s", ")">>

MsgEndDateFormat ==
    <<"E", "n", "d", " ", "d", "a", "t", "e", " ", "m", "u", "s", "t", " ",
      "b", "e", " ", "i", "n", " ", "I", "S", "O", " ", "8", "6", "0", "1",
      " ", "f", "o", "r", "m", "a", "t", " ", "(", "Y", "Y", "Y", "Y", "-",
      "M", "M", "-", "D", "D", " ", "o", "r", " ", "Y", "Y", "Y", "Y", "-",
      "M", "M", "-", "D", "D", "T", "H", "H", ":", "m", "m", ":", "s", "s",
      ")">>

\* `IS_AFTER({${sanitizedFieldName}}, '${escapedStartDate}')`, IS_BEFORE alike
DateLeaf(fn, sanitizedFieldName, date) ==
    fn \o <<"(", "{">> \o sanitizedFieldName \o <<"}", ",", " ", "'">>
       \o escapeFormulaString(date) \o <<"'", ")">>

TxtIsAfter == <<"I", "S", "_", "A", "F", "T", "E", "R">>
TxtIsBefore == <<"I", "S", "_", "B", "E", "F", "O", "R", "E">>

\* buildDateRangeFormula as if only startDate were validated
buildDateRangeFormula_endUnchecked(fieldName, startDate, endDate) ==
    LET san == sanitizeFieldName(fieldName)
        startCond == IF Truthy(startDate)
                     THEN <<DateLeaf(TxtIsAfter, san.value, startDate.v)>> ELSE <<>>
        endCond == IF Truthy(endDate)
                   THEN <<DateLeaf(TxtIsBefore, san.value, endDate.v)>> ELSE <<>>
    IN  IF san.status = "threw" THEN san
        ELSE IF Truthy(startDate) /\ ~MatchesIsoDate(startDate.v)
             THEN Threw("Error", MsgStartDateFormat)
        ELSE RangeResult(startCond \o endCond)

buildDateRangeFormula(fieldName, startDate, endDate) ==
    LET san == sanitizeFieldName(fieldName)
        startCond == IF Truthy(startDate)
                     THEN <<DateLeaf(TxtIsAfter, san.value, startDate.v)>> ELSE <<>>
        endCond == IF Truthy(endDate)
                   THEN <<DateLeaf(TxtIsBefore, san.value, endDate.v)>> ELSE <<>>
    IN  IF san.status = "threw" THEN san
        ELSE IF Truthy(startDate) /\ ~MatchesIsoDate(startDate.v)
             THEN Threw("Error", MsgStartDateFormat)
        ELSE IF Truthy(endDate) /\ ~MatchesIsoDate(endDate.v)
             THEN Threw("Error", MsgEndDateFormat)
        ELSE RangeResult(startCond \o endCond)

(***************************************************************************)
(* Combinators                                                             *)
(***************************************************************************)
\* `f && ...` on a string: the empty string is falsy
NonEmpty(f) == f # <<>>

\* combineFormulasAnd as if it kept the 'TRUE()' entries
combineFormulasAnd_keepsTrue(formulas) ==
    LET filtered == SelectSeq(formulas, NonEmpty)
    IN  IF Len(filtered) = 0 THEN TxtTrue
        ELSE IF Len(filtered) = 1 THEN filtered[1]
        ELSE Wrap(TxtAnd, filtered)

combineFormulasAnd(formulas) ==
    LET Keep(f) == NonEmpty(f) /\ f # TxtTrue
        filtered == SelectSeq(formulas, Keep)
    IN  IF Len(filtered) = 0 THEN TxtTrue
        ELSE IF Len(filtered) = 1 THEN filtered[1]
        ELSE Wrap(TxtAnd, filtered)

combineFormulasOr(formulas) ==
    LET Keep(f) == NonEmpty(f) /\ f # TxtFalse
        filtered == SelectSeq(formulas, Keep)
    IN  IF Len(filtered) = 0 THEN TxtFalse
        ELSE IF Len(filtered) = 1 THEN filtered[1]
        ELSE Wrap(TxtOr, filtered)

(***************************************************************************)
(* Error classes and wrapError                                             *)
(***************************************************************************)
\* the classes derived from AirtableMCPError
MCPErrorClasses ==
    {"AirtableMCPError", "ValidationError", "AuthenticationError",
     "AuthorizationError", "NotFoundError", "RateLimitError",
     "AirtableAPIError", "InternalServerError", "FormulaInjectionError",
     "PayloadTooLargeError", "ConfigurationError"}

\* the code each constructor passes to AirtableMCPError
ErrorCode(class) ==
    CASE class = "ValidationError" -> "VALIDATION_ERROR"
      [] class = "AuthenticationError" -> "AUTHENTICATION_ERROR"
      [] class = "AuthorizationError" -> "AUTHORIZATION_ERROR"
      [] class = "NotFoundError" -> "NOT_FOUND"
      [] class = "RateLimitError" -> "RATE_LIMIT_EXCEEDED"
      [] class = "AirtableAPIError" -> "AIRTABLE_API_ERROR"
      [] class = "InternalServerError" -> "INTERNAL_SERVER_ERROR"
      [] class = "FormulaInjectionError" -> "FORMULA_INJECTION_DETECTED"
      [] class = "PayloadTooLargeError" -> "PAYLOAD_TOO_LARGE"
      [] class = "ConfigurationError" -> "CONFIGURATION_ERROR"

MCPError(class, message) ==
    [class |-> class, message |-> message, code |-> ErrorCode(class)]

TxtAIRTABLE ==
    <<"A", "I", "R", "T", "A", "B", "L", "E">>
TxtAPI ==
    <<"A", "P", "I">>
TxtUnauthorized ==
    <<"u", "n", "a", "u", "t", "h", "o", "r", "i", "z", "e", "d">>
TxtInvalidApiKey ==
    <<"i", "n", "v", "a", "l", "i", "d", " ", "a", "p", "i", " ", "k", "e",
      "y">>
TxtInvalidKey ==
    <<"i", "n", "v", "a", "l", "i", "d", " ", "k", "e", "y">>
TxtAuthenticationFailed ==
    <<"a", "u", "t", "h", "e", "n", "t", "i", "c", "a", "t", "i", "o", "n",
      " ", "f", "a", "i", "l", "e", "d">>
TxtNotFound ==
    <<"n", "o", "t", " ", "f", "o", "u", "n", "d">>
TxtCouldNotFind ==
    <<"c", "o", "u", "l", "d", " ", "n", "o", "t", " ", "f", "i", "n", "d">>
TxtTable ==
    <<"t", "a", "b", "l", "e">>

MsgAuthenticationDefault ==
    <<"I", "n", "v", "a", "l", "i", "d", " ", "o", "r", " ", "m", "i", "s",
      "s", "i", "n", "g", " ", "A", "P", "I", " ", "c", "r", "e", "d", "e",
      "n", "t", "i", "a", "l", "s">>

MsgUnexpected ==
    <<"A", "n", " ", "u", "n", "e", "x", "p", "e", "c", "t", "e", "d", " ",
      "e", "r", "r", "o", "r", " ", "o", "c", "c", "u", "r", "r", "e", "d">>

\* the characters of the class ['"]
QuoteChars == {"'", "\""}

\* how many characters of s from index q on are white space (\s+, greedy)
RECURSIVE WsCount(_, _)
WsCount(s, q) ==
    IF q <= Len(s) /\ s[q] \in WhiteSpace THEN 1 + WsCount(s, q + 1) ELSE 0

\* the longest run of [^'"] in s from index q on
RECURSIVE NonQuoteRun(_, _)
NonQuoteRun(s, q) ==
    IF q <= Len(s) /\ s[q] \notin QuoteChars
    THEN <<s[q]>> \o NonQuoteRun(s, q + 1) ELSE <<>>

\* /table\s+['"]?([^'"]+)['"]?/i matched at index p of s: <<matched, group 1>>.
\* When nothing but a quote or the end follows the white space, the greedy
\* \s+ gives back its last character, which then is group 1.
TableMatchAt(s, p) ==
    LET q == p + Len(TxtTable)
        w == WsCount(s, q)
        r == q + w
    IN  IF p + Len(TxtTable) - 1 > Len(s)
           \/ ToLowerCase(SubSeq(s, p, p + Len(TxtTable) - 1)) # TxtTable
           \/ w = 0
        THEN <<FALSE, <<>>>>
        ELSE IF r <= Len(s) /\ s[r] \notin QuoteChars
             THEN <<TRUE, NonQuoteRun(s, r)>>
        ELSE IF r + 1 <= Len(s) /\ s[r + 1] \notin QuoteChars
             THEN <<TRUE, NonQuoteRun(s, r + 1)>>
        ELSE IF w >= 2 THEN <<TRUE, <<s[r - 1]>>>>
        ELSE <<FALSE, <<>>>>

\* error.message.match(...): the leftmost match from index p on
RECURSIVE TableMatch(_, _)
TableMatch(s, p) ==
    IF p > Len(s) THEN <<FALSE, <<>>>>
    ELSE IF TableMatchAt(s, p)[1] THEN TableMatchAt(s, p)
    ELSE TableMatch(s, p + 1)

\* new NotFoundError(resource): `${resource} not found`, the resource being
\* `Table '${match[1]}'` or 'Resource'
NotFoundMessage(message) ==
    LET match == TableMatch(message, 1)
        resource == IF match[1]
                    THEN <<"T", "a", "b", "l", "e", " ", "'">> \o match[2] \o <<"'">>
                    ELSE <<"R", "e", "s", "o", "u", "r", "c", "e">>
    IN  resource \o <<" ">> \o TxtNotFound

\* error: [class, message]; class "Error" is a plain Error, "NonError" a
\* thrown value that is no Error
wrapError(error) ==
    IF error.class \in MCPErrorClasses THEN MCPError(error.class, error.message)
    ELSE IF error.class = "Error"
    THEN LET lowerMessage == ToLowerCase(error.message)
         IN  IF Includes(error.message, TxtAIRTABLE) \/ Includes(error.message, TxtAPI)
             THEN MCPError("AirtableAPIError", error.message)
             ELSE IF \/ Includes(lowerMessage, TxtUnauthorized)
                     \/ Includes(lowerMessage, TxtInvalidApiKey)
                     \/ Includes(lowerMessage, TxtInvalidKey)
                     \/ Includes(lowerMessage, TxtAuthenticationFailed)
             THEN MCPError("AuthenticationError", MsgAuthenticationDefault)
             ELSE IF \/ Includes(lowerMessage, TxtNotFound)
                     \/ Includes(lowerMessage, TxtCouldNotFind)
             THEN MCPError("NotFoundError", NotFoundMessage(error.message))
             ELSE MCPError("InternalServerError", error.message)
    ELSE MCPError("InternalServerError", MsgUnexpected)

(***************************************************************************)
(* What a client is shown of an error                                      *)
(***************************************************************************)
MsgAuthenticationClient ==
    <<"A", "u", "t", "h", "e", "n", "t", "i", "c", "a", "t", "i", "o", "n",
      " ", "f", "a", "i", "l", "e", "d", ".", " ", "P", "l", "e", "a", "s",
      "e", " ", "c", "h", "e", "c", "k", " ", "y", "o", "u", "r", " ", "A",
      "P", "I", " ", "c", "r", "e", "d", "e", "n", "t", "i", "a", "l", "s",
      ".">>

MsgAuthorizationClient ==
    <<"Y", "o", "u", " ", "d", "o", " ", "n", "o", "t", " ", "h", "a", "v",
      "e", " ", "p", "e", "r", "m", "i", "s", "s", "i", "o", "n", " ", "t",
      "o", " ", "p", "e", "r", "f", "o", "r", "m", " ", "t", "h", "i", "s",
      " ", "a", "c", "t", "i", "o", "n", ".">>

MsgInternalClient ==
    <<"A", "n", " ", "i", "n", "t", "e", "r", "n", "a", "l", " ", "e", "r",
      "r", "o", "r", " ", "o", "c", "c", "u", "r", "r", "e", "d", ".", " ",
      "P", "l", "e", "a", "s", "e", " ", "t", "r", "y", " ", "a", "g", "a",
      "i", "n", " ", "l", "a", "t", "e", "r", ".">>

\* the character class [a-zA-Z0-9]
Alnum ==
    { "a", "b", "c", "d", "e", "f", "g", "h", "i", "j", "k", "l", "m",
      "n", "o", "p", "q", "r", "s", "t", "u", "v", "w", "x", "y", "z",
      "A", "B", "C", "D", "E", "F", "G", "H", "I", "J", "K", "L", "M",
      "N", "O", "P", "Q", "R", "S", "T", "U", "V", "W", "X", "Y", "Z",
      "0", "1", "2", "3", "4", "5", "6", "7", "8", "9" }

\* the character class \s
RegexSpace == {" ", "\t", "\n", "\r"}

\* how many characters of s from index j on are in (inClass) or out of the
\* class, up to the first that is not: a greedy quantifier
RunLength(s, j, class, inClass) ==
    CHOOSE k \in 0..(Len(s) + 1 - j) :
        /\ \A m \in 0..(k - 1) : (s[j + m] \in class) = inClass
        /\ j + k > Len(s) \/ (s[j + k] \in class) # inClass

\* s has the word at index i, ignoring case (the i flag)
HasWordAt(s, i, word) ==
    /\ i + Len(word) - 1 <= Len(s)
    /\ ToLowerCase(SubSeq(s, i, i + Len(word) - 1)) = word

\* the literal prefix of the patterns key..., app... and rec...
Prefix(pattern) ==
    CASE pattern = "key" -> <<"k", "e", "y">>
      [] pattern = "app" -> <<"a", "p", "p">>
      [] pattern = "rec" -> <<"r", "e", "c">>

\* the length of the match of one pattern of sanitizeAirtableError at index i
\* of s, 0 when it does not match there:
\*   key  /key[a-zA-Z0-9]{14,}/gi     app  /app[a-zA-Z0-9]{14}/gi
\*   rec  /rec[a-zA-Z0-9]{14}/gi      bearer  /Bearer\s+[^\s]+/gi
MatchLength(pattern, s, i) ==
    IF pattern = "bearer"
    THEN IF ~HasWordAt(s, i, <<"b", "e", "a", "r", "e", "r">>) THEN 0
         ELSE LET spaces == RunLength(s, i + 6, RegexSpace, TRUE)
                  token == RunLength(s, i + 6 + spaces, RegexSpace, FALSE)
              IN  IF spaces >= 1 /\ token >= 1 THEN 6 + spaces + token ELSE 0
    ELSE IF ~HasWordAt(s, i, Prefix(pattern)) THEN 0
         ELSE LET run == RunLength(s, i + 3, Alnum, TRUE)
              IN  IF run < 14 THEN 0
                  ELSE IF pattern = "key" THEN 3 + run ELSE 17

\* the text a match of the pattern is replaced by
Replacement(pattern) ==
    IF pattern = "bearer" THEN <<"B", "e", "a", "r", "e", "r", " ", "*", "*", "*">>
    ELSE Prefix(pattern) \o <<"*", "*", "*">>

\* String.prototype.replace with a g-flag pattern, from index i of s on:
\* leftmost match first, matches do not overlap
RECURSIVE ReplaceFrom(_, _, _)
ReplaceFrom(pattern, s, i) ==
    LET starts == {j \in i..Len(s) : MatchLength(pattern, s, j) > 0}
        first == CHOOSE j \in starts : \A k \in starts : j <= k
    IN  IF starts = {} THEN SubSeq(s, i, Len(s))
        ELSE SubSeq(s, i, first - 1) \o Replacement(pattern)
                 \o ReplaceFrom(pattern, s, first + MatchLength(pattern, s, first))

ReplaceAll(pattern, s) == ReplaceFrom(pattern, s, 1)

sanitizeAirtableError(message) ==
    ReplaceAll("bearer",
        ReplaceAll("rec", ReplaceAll("app", ReplaceAll("key", message))))

\* toClientError() of each class: { error, code }
toClientError(mcpError) ==
    [error |-> CASE mcpError.class = "AuthenticationError" -> MsgAuthenticationClient
                 [] mcpError.class = "AuthorizationError" -> MsgAuthorizationClient
                 [] mcpError.class = "InternalServerError" -> MsgInternalClient
                 [] mcpError.class = "AirtableAPIError" ->
                        sanitizeAirtableError(mcpError.message)
                 [] OTHER -> mcpError.message,
     code |-> mcpError.code]

(***************************************************************************)
(* Tool dispatch: airtable_smart_query                                     *)
(***************************************************************************)
\* the response of the CallTool catch block to a thrown error: the fields of
\* wrapError(error).toClientError(), with isError set
ToolErrorResponse(error) ==
    LET clientError == toClientError(wrapError(error))
    IN  [isError |-> TRUE, error |-> clientError.error, code |-> clientError.code]

\* an optional boolean argument: Undefined, or Bool(b)
Bool(b) == [t |-> "boolean", v |-> b]

\* the characters of /^[\w\s\-()#+.,'!?&@$%]+$/
SchemaNameChars ==
    Alnum \cup {"_"} \cup RegexSpace
          \cup {"-", "(", ")", "#", "+", ".", ",", "'", "!", "?", "&", "@", "$", "%"}

\* fieldNameSchema and tableNameSchema: not empty, allowed characters only
fieldNameSchema(name) ==
    /\ Len(name) >= 1
    /\ \A i \in 1..Len(name) : name[i] \in SchemaNameChars

\* one member of the discriminated union of smartQuerySchema
conditionSchema(condition) ==
    CASE condition.type = "ageRange" ->
            /\ fieldNameSchema(condition.fieldName)
            /\ condition.minAge \in 0..150
            /\ condition.maxAge \in 0..150
      [] condition.type = "multipleSelect" ->
            /\ fieldNameSchema(condition.fieldName)
            /\ condition.matchType \in {"hasAny", "hasAll", "hasNone"}
            /\ Len(condition.values) >= 1
      [] condition.type = "numberRange" ->
            /\ fieldNameSchema(condition.fieldName)
            /\ condition.min.t \in {"undefined", "num"}
            /\ condition.max.t \in {"undefined", "num"}
      [] condition.type = "customFormula" -> TRUE
      [] OTHER -> FALSE

\* smartQuerySchema.safeParse(args).success
smartQuerySchema(args) ==
    /\ fieldNameSchema(args.table)
    /\ Len(args.conditions) >= 1
    /\ \A i \in 1..Len(args.conditions) : conditionSchema(args.conditions[i])
    /\ args.combineWith \in {"undefined", "AND", "OR"}

MsgInvalidToolArguments ==
    <<"I", "n", "v", "a", "l", "i", "d", " ", "t", "o", "o", "l", " ", "a",
      "r", "g", "u", "m", "e", "n", "t", "s">>

\* `condition.useFuzzyMatch ?? true`
OrTrue(useFuzzyMatch) ==
    IF useFuzzyMatch.t = "undefined" THEN TRUE ELSE useFuzzyMatch.v

\* the catalog the tool handlers pass when the caller gives none
DefaultAgeRanges ==
    << <<"1", "2", "-", "1", "7">>, <<"1", "8", "-", "2", "4">>,
       <<"2", "5", "-", "3", "4">>, <<"3", "5", "-", "4", "4">>,
       <<"4", "5", "-", "6", "5">>, <<"6", "5", "+">> >>

\* `condition.availableOptions || [...]`: an array, even an empty one, is
\* truthy
OrDefaultRanges(availableOptions) ==
    IF availableOptions.t = "undefined" THEN DefaultAgeRanges ELSE availableOptions.v

\* the switch on condition.type: what the builder of one condition returns
\* or throws
ConditionFormula(condition) ==
    CASE condition.type = "ageRange" ->
            buildAgeRangeFormula(condition.fieldName, condition.minAge,
                condition.maxAge, OrDefaultRanges(condition.availableOptions))
      [] condition.type = "multipleSelect" ->
            IF condition.matchType = "hasAny"
            THEN buildMultipleSelectHasAny(condition.fieldName, condition.values,
                     condition.availableOptions, OrTrue(condition.useFuzzyMatch))
            ELSE IF condition.matchType = "hasAll"
            THEN buildMultipleSelectHasAll(condition.fieldName, condition.values,
                     condition.availableOptions, OrTrue(condition.useFuzzyMatch))
            ELSE buildMultipleSelectHasNone(condition.fieldName, condition.values,
                     condition.availableOptions, OrTrue(condition.useFuzzyMatch))
      [] condition.type = "numberRange" ->
            buildNumberRangeFormula(condition.fieldName, condition.min, condition.max)
      [] condition.type = "customFormula" -> Returned(condition.formula)

\* the for loop as if a condition whose builder throws were skipped
RECURSIVE FormulasLoop_skipsFailed(_, _)
FormulasLoop_skipsFailed(conditions, formulas) ==
    IF conditions = <<>> THEN Returned(formulas)
    ELSE LET formula == ConditionFormula(Head(conditions))
         IN  IF formula.status = "threw"
             THEN FormulasLoop_skipsFailed(Tail(conditions), formulas)
             ELSE FormulasLoop_skipsFailed(Tail(conditions),
                                           Append(formulas, formula.value))

\* the for loop over params.conditions: the formulas pushed so far, or what
\* the first failing builder threw
RECURSIVE FormulasLoop(_, _)
FormulasLoop(conditions, formulas) ==
    IF conditions = <<>> THEN Returned(formulas)
    ELSE LET formula == ConditionFormula(Head(conditions))
         IN  IF formula.status = "threw" THEN formula
             ELSE FormulasLoop(Tail(conditions), Append(formulas, formula.value))

\* the handler as if it combined with AND whatever combineWith says
finalFormula_alwaysAnd(args) ==
    LET formulas == FormulasLoop(args.conditions, <<>>)
    IN  IF ~smartQuerySchema(args) THEN Threw("ValidationError", MsgInvalidToolArguments)
        ELSE IF formulas.status = "threw" THEN formulas
        ELSE Returned(combineFormulasAnd(formulas.value))

\* the handler up to its await: the finalFormula it gives to
\* client.listRecords, or what it threw before
finalFormula(args) ==
    LET combineWith == IF args.combineWith = "undefined" THEN "AND" ELSE args.combineWith
        formulas == FormulasLoop(args.conditions, <<>>)
    IN  IF ~smartQuerySchema(args) THEN Threw("ValidationError", MsgInvalidToolArguments)
        ELSE IF formulas.status = "threw" THEN formulas
        ELSE IF combineWith = "OR" THEN Returned(combineFormulasOr(formulas.value))
        ELSE Returned(combineFormulasAnd(formulas.value))

(***************************************************************************)
(* Field filters                                                           *)
(***************************************************************************)
\* `if (x)` on any argument: undefined, null, false, 0, NaN and '' are falsy,
\* every array is truthy
IsTruthy(x) ==
    CASE x.t \in {"undefined", "null", "nan"} -> FALSE
      [] x.t = "boolean" -> x.v
      [] x.t = "string" -> Len(x.v) > 0
      [] x.t = "num" -> x.v # 0
      [] OTHER -> TRUE

\* Array.prototype.includes
Contains(list, x) == \E i \in 1..Len(list) : list[i] = x

\* A pattern of the two lists below is the sequence of its literal parts, in
\* lower case, `.*` standing between two parts; /files?/ and /notes?/ test
\* for 'file' and 'note'.
ATTACHMENT_FIELD_PATTERNS ==
    << << <<"h", "e", "a", "d", "s", "h", "o", "t">> >>, << <<"p", "h", "o",
      "t", "o">> >>, << <<"i", "m", "a", "g", "e">> >>, << <<"p", "i", "c",
      "t", "u", "r", "e">> >>, << <<"s", "a", "m", "p", "l", "e">> >>, <<
      <<"v", "i", "d", "e", "o">> >>, << <<"a", "t", "t", "a", "c", "h", "m",
      "e", "n", "t">> >>, << <<"f", "i", "l", "e">> >>, << <<"m", "e", "d",
      "i", "a">> >>, << <<"s", "c", "r", "e", "e", "n", "s", "h", "o", "t">>
      >>, << <<"l", "i", "v", "i", "n", "g", " ", "r", "o", "o", "m">> >>, <<
      <<"b", "a", "t", "h", "r", "o", "o", "m">> >>, << <<"h", "o", "m", "e",
      " ", "p", "h", "o", "t", "o", "s">> >>, << <<"c", "u", "r", "r", "e",
      "n", "t", " ", "s", "e", "t", "u", "p">> >>, << <<"d", "r", "o", "p",
      "b", "o", "x">> >>, << <<"a", "i">>, <<"i", "m", "a", "g", "e">> >>, <<
      <<"g", "e", "n", "e", "r", "a", "t", "e", "d">>, <<"i", "m", "a", "g",
      "e">> >> >>

LONG_TEXT_FIELD_PATTERNS ==
    << << <<"f", "e", "e", "d", "b", "a", "c", "k">> >>, << <<"n", "o", "t",
      "e">> >>, << <<"d", "e", "s", "c", "r", "i", "p", "t", "i", "o", "n">>
      >>, << <<"b", "i", "o">> >>, << <<"a", "d", "d", "i", "t", "i", "o",
      "n", "a", "l">>, <<"n", "o", "t", "e", "s">> >>, << <<"p", "r", "o",
      "j", "e", "c", "t">>, <<"n", "o", "t", "e", "s">> >>, << <<"c", "o",
      "m", "m", "e", "n", "t", "s">> >>, << <<"r", "i", "c", "h">>, <<"t",
      "e", "x", "t">> >>, << <<"a", "i">>, <<"t", "e", "x", "t">> >>, <<
      <<"g", "e", "n", "e", "r", "a", "t", "e", "d">>, <<"t", "e", "x", "t">>
      >>, << <<"s", "u", "m", "m", "a", "r", "y">> >>, << <<"c", "o", "n",
      "t", "e", "n", "t">> >> >>

\* pattern.test(fieldName) with the i flag; `.` matches no line terminator
PatternTest(pattern, fieldName) ==
    \E i \in 1..Len(fieldName) :
        /\ HasWordAt(fieldName, i, pattern[1])
        /\ Len(pattern) = 2 =>
              \E j \in (i + Len(pattern[1]))..Len(fieldName) :
                  /\ HasWordAt(fieldName, j, pattern[2])
                  /\ \A k \in (i + Len(pattern[1]))..(j - 1) :
                         fieldName[k] \notin LineTerminators

matchesPatterns(fieldName, patterns) ==
    \E p \in 1..Len(patterns) : PatternTest(patterns[p], fieldName)

PresetMinimal ==
    << <<"C", "r", "e", "a", "t", "o", "r", " ", "N", "a", "m", "e">>, <<"F",
      "i", "r", "s", "t", " ", "N", "a", "m", "e">>, <<"L", "a", "s", "t",
      " ", "N", "a", "m", "e">>, <<"E", "m", "a", "i", "l">> >>

PresetContact ==
    << <<"C", "r", "e", "a", "t", "o", "r", " ", "N", "a", "m", "e">>, <<"F",
      "i", "r", "s", "t", " ", "N", "a", "m", "e">>, <<"L", "a", "s", "t",
      " ", "N", "a", "m", "e">>, <<"E", "m", "a", "i", "l">>, <<"P", "h",
      "o", "n", "e", " ", "N", "u", "m", "b", "e", "r">>, <<"I", "n", "s",
      "t", "a", "g", "r", "a", "m", " ", "H", "a", "n", "d", "l", "e">>,
      <<"T", "i", "k", "T", "o", "k", " ", "H", "a", "n", "d", "l", "e">>,
      <<"I", "n", "s", "t", "a", "g", "r", "a", "m", " ", "U", "R", "L">>,
      <<"T", "i", "k", "T", "o", "k", " ", "U", "R", "L">> >>

\* (the emoji that ends two of the names is written '?')
PresetSummary ==
    << <<"C", "r", "e", "a", "t", "o", "r", " ", "N", "a", "m", "e">>, <<"F",
      "i", "r", "s", "t", " ", "N", "a", "m", "e">>, <<"L", "a", "s", "t",
      " ", "N", "a", "m", "e">>, <<"E", "m", "a", "i", "l">>, <<"P", "h",
      "o", "n", "e", " ", "N", "u", "m", "b", "e", "r">>, <<"A", "g", "e">>,
      <<"G", "e", "n", "d", "e", "r">>, <<"S", "t", "a", "t", "u", "s">>,
      <<"C", "r", "e", "a", "t", "o", "r", " ", "T", "y", "p", "e">>, <<"P",
      "r", "o", "s">>, <<"C", "o", "n", "s">>, <<"R", "a", "t", "e", " ",
      "(", " ", "m", "a", "k", "e", " ", "i", "t", " ", "a", "s", " ", "a",
      " ", "D", "r", "o", "p", "d", "o", "w", "n", ")", " ", "?">>, <<"T",
      "o", "t", "a", "l", " ", "#", " ", "o", "f", " ", "C", "l", "i", "e",
      "n", "t", "s">>, <<"A", "c", "t", "i", "v", "e", " ", "C", "l", "i",
      "e", "n", "t", "s", " ", "(", "K", "E", "E", "P", " ", "H", "I", "D",
      "D", "E", "N", ")", " ", "?">>, <<"C", "o", "u", "n", "t", "r", "y">>,
      <<"S", "t", "a", "t", "e">>, <<"C", "i", "t", "y">> >>

\* getFieldPreset(preset, allFields): the preset's field list, or undefined
getFieldPreset(preset) ==
    CASE preset = Str(<<"m", "i", "n", "i", "m", "a", "l">>) -> Arr(PresetMinimal)
      [] preset = Str(<<"c", "o", "n", "t", "a", "c", "t">>) -> Arr(PresetContact)
      [] preset = Str(<<"s", "u", "m", "m", "a", "r", "y">>) -> Arr(PresetSummary)
      [] OTHER -> Undefined

\* the options listRecords passes to filterFields
FilterOptions(excludeAttachments, excludeLongText) ==
    [includeFields |-> Undefined, excludeFields |-> Undefined,
     excludeAttachments |-> excludeAttachments,
     excludeLongText |-> excludeLongText,
     preset |-> Undefined, maxFields |-> Undefined]

\* filterFields(allFields, options): the fields to request, or undefined for
\* all of them
filterFields(allFields, options) ==
    LET presetFields == getFieldPreset(options.preset)
        afterExclude ==
            IF IsTruthy(options.excludeFields) /\ Len(options.excludeFields.v) > 0
            THEN SelectSeq(allFields, LAMBDA f : ~Contains(options.excludeFields.v, f))
            ELSE allFields
        afterAttachments ==
            IF IsTruthy(options.excludeAttachments)
            THEN SelectSeq(afterExclude,
                           LAMBDA f : ~matchesPatterns(f, ATTACHMENT_FIELD_PATTERNS))
            ELSE afterExclude
        afterLongText ==
            IF IsTruthy(options.excludeLongText)
            THEN SelectSeq(afterAttachments,
                           LAMBDA f : ~matchesPatterns(f, LONG_TEXT_FIELD_PATTERNS))
            ELSE afterAttachments
        fields ==
            IF IsTruthy(options.maxFields) /\ options.maxFields.v > 0
            THEN SubSeq(afterLongText, 1,
                        IF options.maxFields.v < Len(afterLongText)
                        THEN options.maxFields.v ELSE Len(afterLongText))
            ELSE afterLongText
    IN  IF IsTruthy(options.includeFields) /\ Len(options.includeFields.v) > 0
        THEN options.includeFields
        ELSE IF IsTruthy(options.preset) /\ IsTruthy(presetFields)
        THEN presetFields
        ELSE IF Len(fields) = Len(allFields) THEN Undefined
        ELSE Arr(fields)

(***************************************************************************)
(* Field values (src/src/utils/field-converter.ts)                         *)
(***************************************************************************)
\* A value of a record field is Null, Undefined, Str(characters), Num(n),
\* Bool(b), Arr(elements) with elements of the same kinds, or an object with
\* one property.
Obj(key, val) == [t |-> "object", key |-> key, val |-> val]

\* the text of a field type
FieldTypeText(type) ==
    CASE type = "singleSelect" -> <<"s", "i", "n", "g", "l", "e", "S", "e",
      "l", "e", "c", "t">>
      [] type = "multipleSelect" -> <<"m", "u", "l", "t", "i", "p", "l", "e",
        "S", "e", "l", "e", "c", "t">>
      [] type = "multipleSelects" -> <<"m", "u", "l", "t", "i", "p", "l",
        "e", "S", "e", "l", "e", "c", "t", "s">>
      [] type = "date" -> <<"d", "a", "t", "e">>
      [] type = "dateTime" -> <<"d", "a", "t", "e", "T", "i", "m", "e">>
      [] type = "number" -> <<"n", "u", "m", "b", "e", "r">>
      [] type = "currency" -> <<"c", "u", "r", "r", "e", "n", "c", "y">>
      [] type = "percent" -> <<"p", "e", "r", "c", "e", "n", "t">>
      [] type = "rating" -> <<"r", "a", "t", "i", "n", "g">>
      [] type = "duration" -> <<"d", "u", "r", "a", "t", "i", "o", "n">>
      [] type = "checkbox" -> <<"c", "h", "e", "c", "k", "b", "o", "x">>
      [] type = "multipleRecordLinks" -> <<"m", "u", "l", "t", "i", "p", "l",
        "e", "R", "e", "c", "o", "r", "d", "L", "i", "n", "k", "s">>
      [] type = "multipleAttachments" -> <<"m", "u", "l", "t", "i", "p", "l",
        "e", "A", "t", "t", "a", "c", "h", "m", "e", "n", "t", "s">>
      [] type = "attachment" -> <<"a", "t", "t", "a", "c", "h", "m", "e",
        "n", "t">>
      [] type = "multipleCollaborators" -> <<"m", "u", "l", "t", "i", "p",
        "l", "e", "C", "o", "l", "l", "a", "b", "o", "r", "a", "t", "o", "r",
        "s">>
      [] type = "email" -> <<"e", "m", "a", "i", "l">>
      [] type = "url" -> <<"u", "r", "l">>
      [] type = "phoneNumber" -> <<"p", "h", "o", "n", "e", "N", "u", "m",
        "b", "e", "r">>
      [] type = "singleLineText" -> <<"s", "i", "n", "g", "l", "e", "L", "i",
        "n", "e", "T", "e", "x", "t">>
      [] type = "multilineText" -> <<"m", "u", "l", "t", "i", "l", "i", "n",
        "e", "T", "e", "x", "t">>
      [] type = "richText" -> <<"r", "i", "c", "h", "T", "e", "x", "t">>
      [] type = "aiText" -> <<"a", "i", "T", "e", "x", "t">>
      [] type = "aiImage" -> <<"a", "i", "I", "m", "a", "g", "e">>
      [] type = "formula" -> <<"f", "o", "r", "m", "u", "l", "a">>
      [] type = "rollup" -> <<"r", "o", "l", "l", "u", "p">>
      [] type = "count" -> <<"c", "o", "u", "n", "t">>
      [] type = "lookup" -> <<"l", "o", "o", "k", "u", "p">>
      [] type = "createdTime" -> <<"c", "r", "e", "a", "t", "e", "d", "T",
        "i", "m", "e">>
      [] type = "createdBy" -> <<"c", "r", "e", "a", "t", "e", "d", "B", "y">>
      [] type = "lastModifiedTime" -> <<"l", "a", "s", "t", "M", "o", "d",
        "i", "f", "i", "e", "d", "T", "i", "m", "e">>
      [] type = "lastModifiedBy" -> <<"l", "a", "s", "t", "M", "o", "d", "i",
        "f", "i", "e", "d", "B", "y">>
      [] type = "autoNumber" -> <<"a", "u", "t", "o", "N", "u", "m", "b",
        "e", "r">>
      [] type = "button" -> <<"b", "u", "t", "t", "o", "n">>
      [] type = "barcode" -> <<"b", "a", "r", "c", "o", "d", "e">>

\* String(value)
RECURSIVE JsString(_)
JsString(value) ==
    CASE value.t = "string" -> value.v
      [] value.t \in {"num", "nan", "inf", "ninf"} -> NumToStr(value)
      [] value.t = "boolean" ->
            IF value.v THEN <<"t", "r", "u", "e">> ELSE <<"f", "a", "l", "s",
              "e">>
      [] value.t = "null" -> <<"n", "u", "l", "l">>
      [] value.t = "undefined" -> <<"u", "n", "d", "e", "f", "i", "n", "e",
        "d">>
      [] value.t = "array" ->
            Join([i \in 1..Len(value.v) |->
                     IF value.v[i].t \in {"null", "undefined"} THEN <<>>
                     ELSE JsString(value.v[i])], <<",">>)
      [] value.t = "object" -> <<"[", "o", "b", "j", "e", "c", "t", " ", "O",
        "b", "j", "e", "c", "t", "]">>

\* parseFloat(string), for strings without a fraction, an exponent or
\* 'Infinity': leading white space, a sign, the longest run of digits
ParseFloat(str) == ParseInt(str)

\* new Date(value).toISOString() when new Date can read the string, else the
\* value itself.  The model's date strings are calendar dates in the ISO
\* form YYYY-MM-DD, read as midnight UTC, and text new Date cannot read.
FormatDate(value) ==
    IF Len(value.v) = 10 /\ MatchesIsoDate(value.v)
    THEN Str(value.v \o <<"T", "0", "0", ":", "0", "0", ":", "0", "0", ".",
      "0", "0", "0", "Z">>)
    ELSE value

\* value.id of an array element or value that is not a string: a property
\* read of null or undefined throws, of a number or boolean gives undefined
PropertyOf(v, key) ==
    IF v.t \in {"null", "undefined"} THEN Threw("TypeError", <<"C", "a", "n",
      "n", "o", "t", " ", "r", "e", "a", "d", " ", "p", "r", "o", "p", "e",
      "r", "t", "i", "e", "s", " ", "o", "f", " ", "n", "u", "l", "l">>)
    ELSE IF v.t = "object" /\ v.key = key THEN Returned(v.val)
    ELSE Returned(Undefined)

\* value.map(v => typeof v === 'string' ? v : v.id) and the one-element form
LinkIds(values) ==
    LET ids == [i \in 1..Len(values) |->
                   IF values[i].t = "string" THEN Returned(values[i])
                   ELSE PropertyOf(values[i], "id")]
    IN  IF \E i \in 1..Len(ids) : ids[i].status = "threw"
        THEN ids[CHOOSE i \in 1..Len(ids) :
                    /\ ids[i].status = "threw"
                    /\ \A j \in 1..(i - 1) : ids[j].status # "threw"]
        ELSE Returned(Arr([i \in 1..Len(ids) |-> ids[i].value]))

\* value.map(v => typeof v === 'string' ? { key: v } : v)
Wrapped(values, key) ==
    Arr([i \in 1..Len(values) |->
            IF values[i].t = "string" THEN Obj(key, values[i]) ELSE values[i]])

MsgAiReadOnly(type) ==
    <<"F", "i", "e", "l", "d", " ", "t", "y", "p", "e", " ", "\"">> \o
      FieldTypeText(type) \o <<"\"", " ", "i", "s", " ", "A", "I", "-", "g",
      "e", "n", "e", "r", "a", "t", "e", "d", " ", "a", "n", "d", " ", "r",
      "e", "a", "d", "-", "o", "n", "l", "y">>

MsgReadOnly(type) ==
    <<"F", "i", "e", "l", "d", " ", "t", "y", "p", "e", " ", "\"">> \o
      FieldTypeText(type) \o <<"\"", " ", "i", "s", " ", "r", "e", "a", "d",
      "-", "o", "n", "l", "y", " ", "a", "n", "d", " ", "c", "a", "n", "n",
      "o", "t", " ", "b", "e", " ", "s", "e", "t">>

formatFieldValue(value, fieldMetadata) ==
    LET type == fieldMetadata.type
    IN  IF value.t \in {"null", "undefined"} THEN Returned(Null)
        ELSE CASE type = "singleSelect" ->
                    Returned(IF value.t = "string" THEN value ELSE
                      Str(JsString(value)))
               [] type \in {"multipleSelect", "multipleSelects"} ->
                    Returned(IF value.t = "array" THEN value
                             ELSE Arr(<<Str(JsString(value))>>))
               [] type \in {"date", "dateTime"} ->
                    Returned(IF value.t = "string" THEN FormatDate(value)
                      ELSE value)
               [] type \in {"number", "currency", "percent", "rating",
                 "duration"} ->
                    Returned(IF value.t \in {"num", "nan", "inf", "ninf"}
                      THEN value
                             ELSE ParseFloat(JsString(value)))
               [] type = "checkbox" ->
                    Returned(IF value.t = "boolean" THEN value
                             ELSE IF value.t = "string"
                             THEN Bool(ToLowerCase(value.v) = <<"t", "r",
                               "u", "e">>
                                          \/ value.v = <<"1">>)
                             ELSE Bool(IsTruthy(value)))
               [] type = "multipleRecordLinks" ->
                    IF value.t = "array" THEN LinkIds(value.v) ELSE
                      LinkIds(<<value>>)
               [] type \in {"multipleAttachments", "attachment"} ->
                    Returned(IF value.t = "array" THEN Wrapped(value.v, "url")
                             ELSE Wrapped(<<value>>, "url"))
               [] type = "multipleCollaborators" ->
                    Returned(IF value.t = "array" THEN Wrapped(value.v, "id")
                             ELSE Wrapped(<<value>>, "id"))
               [] type \in {"email", "url", "phoneNumber", "singleLineText",
                            "multilineText", "richText"} ->
                    Returned(Str(JsString(value)))
               [] type \in {"aiText", "aiImage"} ->
                    Threw("Error", MsgAiReadOnly(type))
               [] type \in {"formula", "rollup", "count", "lookup",
                 "createdTime",
                            "createdBy", "lastModifiedTime", "lastModifiedBy",
                            "autoNumber"} ->
                    Threw("Error", MsgReadOnly(type))
               [] OTHER -> Returned(value)

\* options?.choices?.map(c => c.name): the names, or Undefined
ChoiceNames(fieldMetadata) ==
    IF fieldMetadata.options.t = "undefined" THEN Undefined
    ELSE fieldMetadata.options.choices

\* /^[^\s@]+@[^\s@]+\.[^\s@]+$/.test(s)
EmailTest(s) ==
    \E at \in 2..(Len(s) - 3) :
        /\ s[at] = "@"
        /\ \A i \in 1..Len(s) : s[i] \notin RegexSpace /\ (s[i] = "@" => i =
          at)
        /\ \E dot \in (at + 2)..(Len(s) - 1) : s[dot] = "."

\* whether new URL(s) accepts s: a scheme (a letter, then letters, digits,
\* '+', '-', '.') and ':'; after '//' a host that is not empty
UrlParses(s) ==
    \E colon \in 2..Len(s) :
        /\ s[colon] = ":"
        /\ s[1] \in Alnum \ Digits
        /\ \A i \in 2..(colon - 1) : s[i] \in Alnum \cup {"+", "-", "."}
        /\ (Len(s) >= colon + 2 /\ s[colon + 1] = "/" /\ s[colon + 2] = "/") =>
              (Len(s) >= colon + 3 /\ s[colon + 3] \notin {"/", "?", "#"})

Valid == [valid |-> TRUE, error |-> <<>>]

Invalid(error) == [valid |-> FALSE, error |-> error]

validateFieldValue(value, fieldMetadata) ==
    LET type == fieldMetadata.type
        validChoices == ChoiceNames(fieldMetadata)
        values == IF value.t = "array" THEN value.v ELSE <<value>>
        invalidChoices ==
            SelectSeq(values, LAMBDA v : ~Contains(validChoices.v,
              JsString(v)))
    IN  IF value.t \in {"null", "undefined"} THEN Valid
        ELSE CASE type = "singleSelect" ->
                    IF IsTruthy(validChoices)
                          /\ ~Contains(validChoices.v, JsString(value))
                    THEN Invalid(<<"I", "n", "v", "a", "l", "i", "d", " ",
                      "c", "h", "o", "i", "c", "e", " ", "f", "o", "r", " ",
                      "f", "i", "e", "l", "d", " ", "\"">> \o
                      fieldMetadata.name
                                 \o <<"\"", ".", " ", "V", "a", "l", "i",
                                   "d", " ", "c", "h", "o", "i", "c", "e", "s",
                                   ":", " ">>
                                 \o Join(validChoices.v, <<",", " ">>))
                    ELSE Valid
               [] type \in {"multipleSelect", "multipleSelects"} ->
                    IF IsTruthy(validChoices) /\ Len(invalidChoices) > 0
                    THEN Invalid(<<"I", "n", "v", "a", "l", "i", "d", " ",
                      "c", "h", "o", "i", "c", "e", "s", " ", "f", "o", "r",
                      " ", "f", "i", "e", "l", "d", " ", "\"">> \o
                      fieldMetadata.name
                                 \o <<"\"", ":", " ">>
                                 \o Join([i \in 1..Len(invalidChoices) |->
                                             JsString(invalidChoices[i])],
                                               <<",", " ">>)
                                 \o <<".", " ", "V", "a", "l", "i", "d", " ",
                                   "c", "h", "o", "i", "c", "e", "s", ":",
                                   " ">>
                                 \o Join(validChoices.v, <<",", " ">>))
                    ELSE Valid
               [] type = "email" ->
                    IF ~EmailTest(JsString(value))
                    THEN Invalid(<<"I", "n", "v", "a", "l", "i", "d", " ",
                      "e", "m", "a", "i", "l", " ", "f", "o", "r", "m", "a",
                      "t", " ", "f", "o", "r", " ", "f", "i", "e", "l", "d",
                      " ", "\"">>
                                 \o fieldMetadata.name \o <<"\"">>)
                    ELSE Valid
               [] type = "url" ->
                    IF ~UrlParses(JsString(value))
                    THEN Invalid(<<"I", "n", "v", "a", "l", "i", "d", " ",
                      "U", "R", "L", " ", "f", "o", "r", "m", "a", "t", " ",
                      "f", "o", "r", " ", "f", "i", "e", "l", "d", " ", "\"">>
                                 \o fieldMetadata.name \o <<"\"">>)
                    ELSE Valid
               [] OTHER -> Valid

(***************************************************************************)
(* AirtableClient: listRecords                                             *)
(***************************************************************************)
\* the basic schema getTableSchema falls back to and updateTableSchema starts
\* from: { id: tableName, name: tableName, fields: [] }
BasicSchema(tableName) == [id |-> tableName, name |-> tableName, fields |-> <<>>]

MsgBaseIdRequired ==
    <<"B", "a", "s", "e", " ", "I", "D", " ", "r", "e", "q", "u", "i", "r",
      "e", "d", ".", " ", "P", "l", "e", "a", "s", "e", " ", "u", "s", "e",
      " ", "t", "h", "e", " ", "a", "i", "r", "t", "a", "b", "l", "e", "_",
      "l", "i", "s", "t", "_", "b", "a", "s", "e", "s", " ", "t", "o", "o",
      "l", " ", "t", "o", " ", "s", "e", "e", " ", "a", "v", "a", "i", "l",
      "a", "b", "l", "e", " ", "b", "a", "s", "e", "s", " ", "a", "n", "d",
      " ", "g", "e", "t", " ", "t", "h", "e", "i", "r", " ", "I", "D", "s",
      ",", " ", "t", "h", "e", "n", " ", "p", "r", "o", "v", "i", "d", "e",
      " ", "t", "h", "e", " ", "b", "a", "s", "e", "I", "d", " ", "p", "a",
      "r", "a", "m", "e", "t", "e", "r", ".">>

\* getBase(baseId) of a client whose configured base is defaultBase ('' when
\* none is configured): the base the request goes to
getBase(defaultBase, baseId) ==
    IF Len(defaultBase) > 0 THEN Returned(defaultBase)
    ELSE IF ~IsTruthy(baseId) THEN Threw("ConfigurationError", MsgBaseIdRequired)
    ELSE Returned(baseId.v)

\* the copy `if (params?.x) query.x = params.x` of listRecords
IfTruthy(x) == IF IsTruthy(x) THEN x ELSE Undefined

\* query.fields as listRecords sets it, given the schema getTableSchema
\* returned: the explicit list, or the schema's field names after the preset
\* or the exclusions, and only when that is fewer than all of them
listRecordsFields(params, schema) ==
    LET allFieldNames == [i \in 1..Len(schema.fields) |-> schema.fields[i].name]
        presetFields == getFieldPreset(params.preset)
        excluded ==
            IF IsTruthy(params.excludeFields)
            THEN SelectSeq(allFieldNames,
                           LAMBDA f : ~Contains(params.excludeFields.v, f))
            ELSE allFieldNames
        filtered == filterFields(allFieldNames,
                        FilterOptions(params.excludeAttachments, params.excludeLongText))
        filteredFields ==
            IF IsTruthy(params.preset)
            THEN (IF IsTruthy(presetFields) THEN presetFields.v ELSE allFieldNames)
            ELSE IF (IsTruthy(params.excludeAttachments) \/ IsTruthy(params.excludeLongText))
                       /\ IsTruthy(filtered)
            THEN filtered.v
            ELSE excluded
    IN  IF IsTruthy(params.fields) THEN params.fields
        ELSE IF Len(allFieldNames) > 0 /\ Len(filteredFields) < Len(allFieldNames)
        THEN Arr(filteredFields)
        ELSE Undefined

\* the query listRecords gives to base(tableName).select
listRecordsQuery(params, schema) ==
    [filterByFormula |-> IfTruthy(params.filterByFormula),
     maxRecords |-> IfTruthy(params.maxRecords),
     pageSize |-> IfTruthy(params.pageSize),
     sort |-> IfTruthy(params.sort),
     view |-> IfTruthy(params.view),
     fields |-> listRecordsFields(params, schema)]

\* the QueryParams the airtable_list_records handler builds from its
\* arguments; excludeAttachments is `params.excludeAttachments ?? true`
listRecordsParams(args) ==
    [filterByFormula |-> args.filterByFormula,
     maxRecords |-> args.maxRecords,
     pageSize |-> Undefined,
     view |-> args.view,
     fields |-> args.fields,
     excludeFields |-> args.excludeFields,
     excludeAttachments |-> IF args.excludeAttachments.t \in {"undefined", "null"}
                            THEN Bool(TRUE) ELSE args.excludeAttachments,
     excludeLongText |-> args.excludeLongText,
     preset |-> args.preset,
     sort |-> args.sort]

\* /^app[a-zA-Z0-9]{14}$/ and /^rec[a-zA-Z0-9]{14}$/
IdSchema(prefix, id) ==
    /\ Len(id) = 17
    /\ SubSeq(id, 1, 3) = prefix
    /\ \A i \in 4..17 : id[i] \in Alnum

\* baseIdSchema.optional()
baseIdSchema(baseId) ==
    \/ baseId.t = "undefined"
    \/ baseId.t = "string" /\ IdSchema(<<"a", "p", "p">>, baseId.v)

\* z.array(fieldNameSchema).optional()
FieldListSchema(list) ==
    \/ list.t = "undefined"
    \/ list.t = "array" /\ \A i \in 1..Len(list.v) : fieldNameSchema(list.v[i])

\* z.boolean().optional()
OptionalBoolean(x) == x.t \in {"undefined", "boolean"}

\* presetSchema.optional()
presetSchema(preset) ==
    \/ preset.t = "undefined"
    \/ preset \in {Str(<<"m", "i", "n", "i", "m", "a", "l">>),
                   Str(<<"c", "o", "n", "t", "a", "c", "t">>),
                   Str(<<"s", "u", "m", "m", "a", "r", "y">>),
                   Str(<<"f", "u", "l", "l">>)}

\* listRecordsSchema.safeParse(args).success, for arguments whose
\* filterByFormula, maxRecords, view and sort are absent or well-formed
listRecordsSchema(args) ==
    /\ baseIdSchema(args.baseId)
    /\ fieldNameSchema(args.table)
    /\ FieldListSchema(args.fields)
    /\ FieldListSchema(args.excludeFields)
    /\ OptionalBoolean(args.excludeAttachments)
    /\ OptionalBoolean(args.excludeLongText)
    /\ presetSchema(args.preset)

\* client.listRecords(tableName, params, baseId) from the point where
\* getTableSchema has returned schema: the select request it sends, or the
\* error of getBase
listRecords(defaultBase, tableName, params, baseId, schema) ==
    LET base == getBase(defaultBase, baseId)
    IN  IF base.status = "threw" THEN base
        ELSE Returned([kind |-> "select", base |-> base.value, table |-> tableName,
                       query |-> listRecordsQuery(params, schema)])

(***************************************************************************)
(* AirtableClient: writing records (src/src/utils/airtable-client.ts)      *)
(***************************************************************************)
\* The fields of a record are the sequence of the object's entries
\* [name, value], names distinct.  Each method is given the schema that
\* getTableSchema returned and yields the request it sends to Airtable, or
\* what it returns or throws without sending one.
Entry(name, value) == [name |-> name, value |-> value]

\* schema.fields.find(f => f.name === fieldName)
FindField(schema, fieldName) ==
    IF \E i \in 1..Len(schema.fields) : schema.fields[i].name = fieldName
    THEN schema.fields[CHOOSE i \in 1..Len(schema.fields) :
            /\ schema.fields[i].name = fieldName
            /\ \A j \in 1..(i - 1) : schema.fields[j].name # fieldName]
    ELSE Undefined

\* one turn of the loop over Object.entries(fields)
FormatEntry(entry, schema, prefix) ==
    LET fieldMetadata == FindField(schema, entry.name)
        validation == validateFieldValue(entry.value, fieldMetadata)
    IN  IF fieldMetadata = Undefined THEN Returned(entry.value)
        ELSE IF ~validation.valid THEN Threw("Error", prefix \o
          validation.error)
        ELSE formatFieldValue(entry.value, fieldMetadata)

\* the first entry of the results that threw, or 0
FirstThrew(results) ==
    IF \E i \in 1..Len(results) : results[i].status = "threw"
    THEN CHOOSE i \in 1..Len(results) :
            /\ results[i].status = "threw"
            /\ \A j \in 1..(i - 1) : results[j].status # "threw"
    ELSE 0

RecordPrefix(fieldName) ==
    <<"R", "e", "c", "o", "r", "d", " ", "v", "a", "l", "i", "d", "a", "t",
      "i", "o", "n", " ", "f", "a", "i", "l", "e", "d", " ", "f", "o", "r",
      " ", "f", "i", "e", "l", "d", " ", "\"">> \o fieldName \o <<"\"", ":",
      " ">>

UpdatePrefix(id, fieldName) ==
    <<"U", "p", "d", "a", "t", "e", " ", "v", "a", "l", "i", "d", "a", "t",
      "i", "o", "n", " ", "f", "a", "i", "l", "e", "d", " ", "f", "o", "r",
      " ", "r", "e", "c", "o", "r", "d", " ", "\"">> \o id \o <<"\"", ",", " ",
      "f", "i", "e", "l", "d", " ", "\"">>
    \o fieldName \o <<"\"", ":", " ">>

\* what precedes validation.error in the message a method throws
ValidationPrefix(method, id, fieldName) ==
    CASE method = "batchCreateRecords" -> RecordPrefix(fieldName)
      [] method = "batchUpdateRecords" -> UpdatePrefix(id, fieldName)
      [] OTHER -> <<>>

\* the loop `for (const [fieldName, value] of Object.entries(fields))` of
\* the method, for the record with this id
FormatFields(fields, schema, method, id) ==
    LET results == [i \in 1..Len(fields) |->
                       FormatEntry(fields[i], schema,
                                   ValidationPrefix(method, id, fields[i].name))]
        failed == FirstThrew(results)
    IN  IF failed > 0 THEN results[failed]
        ELSE Returned([i \in 1..Len(fields) |->
                          Entry(fields[i].name, results[i].value)])

createRecord(defaultBase, tableName, fields, baseId, schema) ==
    LET formattedFields == FormatFields(fields, schema, "createRecord", <<>>)
        base == getBase(defaultBase, baseId)
    IN  IF formattedFields.status = "threw" THEN formattedFields
        ELSE IF base.status = "threw" THEN base
        ELSE Returned([kind |-> "create", base |-> base.value, table |-> tableName,
                       fields |-> formattedFields.value])

updateRecord(defaultBase, tableName, recordId, fields, baseId, schema) ==
    LET formattedFields == FormatFields(fields, schema, "updateRecord", recordId)
        base == getBase(defaultBase, baseId)
    IN  IF formattedFields.status = "threw" THEN formattedFields
        ELSE IF base.status = "threw" THEN base
        ELSE Returned([kind |-> "update", base |-> base.value, table |-> tableName,
                       id |-> recordId, fields |-> formattedFields.value])

MsgBatchCreateLimit ==
    <<"A", "i", "r", "t", "a", "b", "l", "e", " ", "A", "P", "I", " ", "s",
      "u", "p", "p", "o", "r", "t", "s", " ", "a", " ", "m", "a", "x", "i",
      "m", "u", "m", " ", "o", "f", " ", "1", "0", " ", "r", "e", "c", "o",
      "r", "d", "s", " ", "p", "e", "r", " ", "b", "a", "t", "c", "h", " ",
      "c", "r", "e", "a", "t", "e", " ", "r", "e", "q", "u", "e", "s", "t">>

MsgBatchUpdateLimit ==
    <<"A", "i", "r", "t", "a", "b", "l", "e", " ", "A", "P", "I", " ", "s",
      "u", "p", "p", "o", "r", "t", "s", " ", "a", " ", "m", "a", "x", "i",
      "m", "u", "m", " ", "o", "f", " ", "1", "0", " ", "r", "e", "c", "o",
      "r", "d", "s", " ", "p", "e", "r", " ", "b", "a", "t", "c", "h", " ",
      "u", "p", "d", "a", "t", "e", " ", "r", "e", "q", "u", "e", "s", "t">>

batchCreateRecords(defaultBase, tableName, records, baseId, schema) ==
    LET results == [i \in 1..Len(records) |->
                       FormatFields(records[i], schema, "batchCreateRecords", <<>>)]
        failed == FirstThrew(results)
        base == getBase(defaultBase, baseId)
    IN  IF Len(records) = 0 THEN Returned(Arr(<<>>))
        ELSE IF Len(records) > 10 THEN Threw("Error", MsgBatchCreateLimit)
        ELSE IF failed > 0 THEN results[failed]
        ELSE IF base.status = "threw" THEN base
        ELSE Returned([kind |-> "create", base |-> base.value, table |->
          tableName,
                       records |-> [i \in 1..Len(records) |->
                         results[i].value]])

batchUpdateRecords(defaultBase, tableName, updates, baseId, schema) ==
    LET results == [i \in 1..Len(updates) |->
                       FormatFields(updates[i].fields, schema, "batchUpdateRecords",
                                    updates[i].id)]
        failed == FirstThrew(results)
        base == getBase(defaultBase, baseId)
    IN  IF Len(updates) = 0 THEN Returned(Arr(<<>>))
        ELSE IF Len(updates) > 10 THEN Threw("Error", MsgBatchUpdateLimit)
        ELSE IF failed > 0 THEN results[failed]
        ELSE IF base.status = "threw" THEN base
        ELSE Returned([kind |-> "update", base |-> base.value, table |->
          tableName,
                       records |-> [i \in 1..Len(updates) |->
                                       [id |-> updates[i].id,
                                        fields |-> results[i].value]]])

\* whether what a method yields is a request to Airtable
IsRequest(x) == "kind" \in DOMAIN x

(***************************************************************************)
(* The server process (src/src/index.ts): main() and the CallTool handler  *)
(***************************************************************************)
\* getConfig(): the two environment variables, '' when absent
getConfig(pat, baseId) == [apiKey |-> pat, baseId |-> baseId]

\* String.prototype.startsWith
StartsWith(s, prefix) ==
    Len(s) >= Len(prefix) /\ SubSeq(s, 1, Len(prefix)) = prefix

MsgMissingPat ==
    <<"M", "i", "s", "s", "i", "n", "g", " ", "A", "I", "R", "T", "A", "B",
      "L", "E", "_", "P", "A", "T", " ", "e", "n", "v", "i", "r", "o", "n",
      "m", "e", "n", "t", " ", "v", "a", "r", "i", "a", "b", "l", "e", ".",
      " ", "P", "l", "e", "a", "s", "e", " ", "c", "o", "n", "f", "i", "g",
      "u", "r", "e", " ", "y", "o", "u", "r", " ", "P", "e", "r", "s", "o",
      "n", "a", "l", " ", "A", "c", "c", "e", "s", "s", " ", "T", "o", "k",
      "e", "n", ".">>

MsgTokenFormat ==
    <<"I", "n", "v", "a", "l", "i", "d", " ", "t", "o", "k", "e", "n", " ",
      "f", "o", "r", "m", "a", "t", ".", " ", "E", "x", "p", "e", "c", "t",
      "e", "d", " ", "P", "e", "r", "s", "o", "n", "a", "l", " ", "A", "c",
      "c", "e", "s", "s", " ", "T", "o", "k", "e", "n", " ", "s", "t", "a",
      "r", "t", "i", "n", "g", " ", "w", "i", "t", "h", " ", "\"", "p", "a",
      "t", "\"", ".", " ", "L", "e", "g", "a", "c", "y", " ", "A", "P", "I",
      " ", "k", "e", "y", "s", " ", "a", "r", "e", " ", "n", "o", " ", "l",
      "o", "n", "g", "e", "r", " ", "s", "u", "p", "p", "o", "r", "t", "e",
      "d", ".">>

MsgTokenShort == <<"I", "n", "v", "a", "l", "i", "d", " ", "A", "I", "R",
  "T", "A", "B", "L", "E", "_", "P", "A", "T", " ", "f", "o", "r", "m", "a",
  "t", " ", "-", " ", "t", "o", "k", "e", "n", " ", "a", "p", "p", "e", "a",
  "r", "s", " ", "t", "o", "o", " ", "s", "h", "o", "r", "t", ".">>

MsgBaseIdFormat ==
    <<"I", "n", "v", "a", "l", "i", "d", " ", "A", "I", "R", "T", "A", "B",
      "L", "E", "_", "B", "A", "S", "E", "_", "I", "D", " ", "f", "o", "r",
      "m", "a", "t", ".", " ", "E", "x", "p", "e", "c", "t", "e", "d", " ",
      "f", "o", "r", "m", "a", "t", ":", " ", "a", "p", "p", "X", "X", "X",
      "X", "X", "X", "X", "X", "X", "X", "X", "X", "X", "X">>

\* validateConfig as if it did not look at the length of the token
validateConfig_anyLength(cfg) ==
    IF Len(cfg.apiKey) = 0 THEN Threw("AuthenticationError", MsgMissingPat)
    ELSE IF ~StartsWith(cfg.apiKey, <<"p", "a", "t">>)
    THEN Threw("AuthenticationError", MsgTokenFormat)
    ELSE IF Len(cfg.baseId) > 0
               /\ (~StartsWith(cfg.baseId, <<"a", "p", "p">>) \/
                 Len(cfg.baseId) # 17)
    THEN Threw("AuthenticationError", MsgBaseIdFormat)
    ELSE Returned(Undefined)

validateConfig(cfg) ==
    IF Len(cfg.apiKey) = 0 THEN Threw("AuthenticationError", MsgMissingPat)
    ELSE IF ~StartsWith(cfg.apiKey, <<"p", "a", "t">>)
    THEN Threw("AuthenticationError", MsgTokenFormat)
    ELSE IF Len(cfg.apiKey) < 20 THEN Threw("AuthenticationError",
      MsgTokenShort)
    ELSE IF Len(cfg.baseId) > 0
               /\ (~StartsWith(cfg.baseId, <<"a", "p", "p">>) \/
                 Len(cfg.baseId) # 17)
    THEN Threw("AuthenticationError", MsgBaseIdFormat)
    ELSE Returned(Undefined)

\* what the request of validateCredentials meets: a response with a status
\* code, or a rejection of fetch
Response(code) == [status |-> "response", code |-> code]

FetchRejected == [status |-> "rejected"]

\* response.ok
ResponseOk(answer) ==
    answer.status = "response" /\ answer.code >= 200 /\ answer.code <= 299

MsgStatus(code) == <<"P", "A", "T", " ", "v", "a", "l", "i", "d", "a", "t",
  "i", "o", "n", " ", "f", "a", "i", "l", "e", "d", " ", "w", "i", "t", "h",
  " ", "s", "t", "a", "t", "u", "s", " ">> \o NumToStr(Num(code))

\* validateCredentials, given what its request met
validateCredentials(cfg, answer) ==
    IF answer.status = "rejected" THEN Threw("TypeError", <<"f", "e", "t",
      "c", "h", " ", "f", "a", "i", "l", "e", "d">>)
    ELSE IF ResponseOk(answer) THEN Returned(Undefined)
    ELSE IF answer.code = 401
    THEN Threw("AuthenticationError", <<"I", "n", "v", "a", "l", "i", "d",
      " ", "P", "e", "r", "s", "o", "n", "a", "l", " ", "A", "c", "c", "e",
      "s", "s", " ", "T", "o", "k", "e", "n">>)
    ELSE IF Len(cfg.baseId) > 0 /\ answer.code = 404
    THEN Threw("AuthenticationError", <<"B", "a", "s", "e", " ", "n", "o",
      "t", " ", "f", "o", "u", "n", "d", ":", " ">> \o cfg.baseId)
    ELSE IF Len(cfg.baseId) > 0 /\ answer.code = 403
    THEN Threw("AuthenticationError", <<"N", "o", " ", "a", "c", "c", "e",
      "s", "s", " ", "t", "o", " ", "b", "a", "s", "e", ":", " ">> \o
      cfg.baseId)
    ELSE Threw("Error", MsgStatus(answer.code))

\* Map.prototype.set on the schema cache
Put(cache, tableName, schema) ==
    [t \in DOMAIN cache \cup {tableName} |->
        IF t = tableName THEN schema ELSE cache[t]]

MsgBaseIdRequiredForFetch ==
    <<"B", "a", "s", "e", " ", "I", "D", " ", "r", "e", "q", "u", "i", "r",
      "e", "d", " ", "f", "o", "r", " ", "s", "c", "h", "e", "m", "a", " ",
      "f", "e", "t", "c", "h", ".", " ", "P", "l", "e", "a", "s", "e", " ",
      "u", "s", "e", " ", "t", "h", "e", " ", "a", "i", "r", "t", "a", "b",
      "l", "e", "_", "l", "i", "s", "t", "_", "b", "a", "s", "e", "s", " ",
      "t", "o", "o", "l", " ", "t", "o", " ", "s", "e", "e", " ", "a", "v",
      "a", "i", "l", "a", "b", "l", "e", " ", "b", "a", "s", "e", "s", " ",
      "a", "n", "d", " ", "g", "e", "t", " ", "t", "h", "e", "i", "r", " ",
      "I", "D", "s", ",", " ", "t", "h", "e", "n", " ", "p", "r", "o", "v",
      "i", "d", "e", " ", "t", "h", "e", " ", "b", "a", "s", "e", "I", "d",
      " ", "p", "a", "r", "a", "m", "e", "t", "e", "r", ".">>

\* getTableSchema up to its await: the cached schema, the ConfigurationError,
\* or the base whose metadata it fetches
getTableSchema(cache, cfg, tableName, baseId) ==
    LET targetBaseId == IF IsTruthy(baseId) THEN baseId.v ELSE cfg.baseId
    IN  IF tableName \in DOMAIN cache THEN Returned(cache[tableName])
        ELSE IF Len(targetBaseId) = 0
        THEN Threw("ConfigurationError", MsgBaseIdRequiredForFetch)
        ELSE [status |-> "fetching", value |-> targetBaseId, error |-> NoError]

updateTableSchema(cache, tableName, fields) ==
    LET schema == IF tableName \in DOMAIN cache THEN cache[tableName]
                  ELSE BasicSchema(tableName)
    IN  Put(cache, tableName, [schema EXCEPT !.fields = fields])

MAX_FIELDS == 100

\* createRecordSchema.safeParse(args).success
createRecordSchema(args) ==
    /\ baseIdSchema(args.baseId)
    /\ fieldNameSchema(args.table)
    /\ \A i \in 1..Len(args.fields) : fieldNameSchema(args.fields[i].name)
    /\ Len(args.fields) > 0
    /\ Len(args.fields) <= MAX_FIELDS

\* setTableSchemaSchema.safeParse(args).success, for fields whose type is a
\* string and whose options are absent or an object
setTableSchemaSchema(args) ==
    /\ baseIdSchema(args.baseId)
    /\ fieldNameSchema(args.table)
    /\ \A i \in 1..Len(args.fields) : fieldNameSchema(args.fields[i].name)
    /\ Len(args.fields) >= 1
    /\ Len(args.fields) <= MAX_FIELDS

UnknownToolName == <<"a", "i", "r", "t", "a", "b", "l", "e", "_", "d", "r",
  "o", "p", "_", "t", "a", "b", "l", "e">>

MsgUnknownTool == <<"U", "n", "k", "n", "o", "w", "n", " ", "t", "o", "o",
  "l", ":", " ">> \o UnknownToolName

\* validateToolArgs as if every schema accepted everything
validateToolArgs_lenient(tool, args) == TRUE

\* validateToolArgs with the schema of the tool
validateToolArgs(tool, args) ==
    CASE tool = "airtable_list_records" -> listRecordsSchema(args)
      [] tool = "airtable_create_record" -> createRecordSchema(args)
      [] tool = "airtable_set_table_schema" -> setTableSchemaSchema(args)
      [] tool = "airtable_smart_query" -> smartQuerySchema(args)

KnownTools ==
    {"airtable_list_records", "airtable_create_record",
     "airtable_set_table_schema", "airtable_smart_query"}

\* the case of the tool up to its call of the client: what it threw, or the
\* formula of airtable_smart_query
HandlerStart(tool, args) ==
    IF tool \notin KnownTools THEN Threw("ValidationError", MsgUnknownTool)
    ELSE IF ~validateToolArgs(tool, args)
    THEN Threw("ValidationError", MsgInvalidToolArguments)
    ELSE IF tool = "airtable_smart_query" THEN finalFormula(args)
    ELSE Returned(Undefined)

\* the QueryParams of airtable_smart_query
smartQueryParams(final) ==
    [filterByFormula |-> Str(final), maxRecords |-> Undefined,
     pageSize |-> Undefined, view |-> Undefined, fields |-> Undefined,
     excludeFields |-> Undefined, excludeAttachments |-> Undefined,
     excludeLongText |-> Undefined, preset |-> Undefined, sort |-> Undefined]

\* the client method of the tool from the point where getTableSchema has
\* returned schema: its request to Airtable, or what it threw; formula is
\* the finalFormula of airtable_smart_query
ClientCall(cfg, tool, args, formula, schema) ==
    IF tool = "airtable_create_record"
    THEN createRecord(cfg.baseId, args.table, args.fields, args.baseId, schema)
    ELSE listRecords(cfg.baseId, args.table,
                     IF tool = "airtable_smart_query" THEN smartQueryParams(formula)
                     ELSE listRecordsParams(args),
                     args.baseId, schema)

\* the result of a tool call that succeeded
ToolResult(value) == [isError |-> FALSE, value |-> value]

\* the responses a step of the handler sends: none while it awaits the
\* network, its result when it returned, the catch block's when it threw
Respond(result) ==
    IF result.status = "none" THEN <<>>
    ELSE IF result.status = "threw" THEN <<ToolErrorResponse(result.error)>>
    ELSE <<ToolResult(result.value)>>

\* A step of a call: its new position, the base whose metadata it fetches,
\* the schema it holds, the cache, the requests it sends, and what the
\* handler returned or threw.
Step(pos, base, schema, cache, sent, result) ==
    [pc |-> pos, base |-> base, schema |-> schema, cache |-> cache,
     requests |-> sent, result |-> result]

\* the handler from the point where getTableSchema has returned schema, sent
\* being what the client method gave
WithSchema(schema, cache, sent) ==
    IF sent.status = "threw"
    THEN Step("done", <<>>, schema, cache, <<>>, sent)
    ELSE Step("requesting", <<>>, schema, cache, <<sent.value>>, NoOutcome)

\* whether the handler, after start and lookup, calls the client method
\* without waiting for a metadata fetch
CallsClient(tool, start, lookup) ==
    /\ start.status = "returned"
    /\ tool # "airtable_set_table_schema"
    /\ lookup.status = "returned"

\* the handler of a call from its receipt to its first request to the
\* network or to its response: start is what HandlerStart gave, lookup what
\* getTableSchema gives, sent what the client method gives
HandleCall(cache, tool, args, start, lookup, sent) ==
    IF start.status = "threw"
    THEN Step("done", <<>>, Undefined, cache, <<>>, start)
    ELSE IF tool = "airtable_set_table_schema"
    THEN Step("done", <<>>, Undefined,
              updateTableSchema(cache, args.table, args.fields), <<>>,
              Returned(args.table))
    ELSE IF lookup.status = "threw"
    THEN Step("done", <<>>, Undefined, cache, <<>>, lookup)
    ELSE IF lookup.status = "fetching"
    THEN Step("fetching", lookup.value, Undefined, cache, <<>>, NoOutcome)
    ELSE WithSchema(lookup.value, cache, sent)

(***************************************************************************)
(* Inputs                                                                  *)
(***************************************************************************)
EscChars == {Quote, Backslash, "a"}
NameChars == {"F", " ", "{", "}", "\n", "\r"}

\* field names given to the builders: plain, padded, with a parenthesis and
\* a quote, and rejected ones
NamePool ==
    { <<"F">>, <<" ", "F", " ">>, <<"(", "'">>,
      <<"{">>, <<"F", "}">>, <<"F", "\n">>, <<" ">> }

\* values of a multiple-select query, among them quotes, a backslash-quote
\* pair and the empty string
ValuePool ==
    { <<"a">>, <<"A">>, <<"b">>, <<"a", "b">>, <<>>,
      <<"'">>, <<"a", "'", "b">>, <<Backslash, "'">>, <<"'", ")">> }

\* the availableOptions argument
VocabularyPool ==
    { Undefined, Arr(<<>>),
      Arr(<< <<"A">>, <<"a", "b">> >>),
      Arr(<< <<"a", "b">>, <<"A", "b">>, <<"b">> >>),
      Arr(<< <<"a", "'", "b">>, <<>>, <<"A">> >>),
      Arr(<< <<"z">> >>) }

\* bucket labels: well-formed, inverted, with a quote, and malformed
LabelPool ==
    { <<"1", "-", "2">>, <<"3", "-", "4">>, <<"4", "-", "1">>, <<"5", "+">>,
      <<"2", "-", "3", "'">>, <<"x">>, <<"3">>, <<"-", "3">>, <<"+">> }

Catalogs == SeqsUpTo(LabelPool, MaxValues) \cup {DefaultAgeRanges}

\* <<minAge, maxAge>>: every pair of small ages, inverted ones among them,
\* the pairs of the documented examples, and an inverted pair that the default
\* catalog's open bucket meets
AgePairs ==
    ((0..MaxAge) \X (0..MaxAge))
        \cup {<<29, 42>>, <<18, 24>>, <<70, 80>>, <<0, 11>>, <<80, 70>>}

NumberArgs ==
    {Undefined, Null, NaN, PosInf, NegInf} \cup {Num(n) : n \in (0 - MaxNum)..MaxNum}

ValidDateTime ==
    <<"2", "0", "2", "4", "-", "0", "1", "-", "3", "1", "T",
      "1", "0", ":", "2", "0", ":", "3", "0">>

ValidDate == SubSeq(ValidDateTime, 1, 10)

\* date arguments: every prefix of a valid date-time, every one-character
\* corruption of it, valid values with a tail, and another date format
DatePool ==
    {SubSeq(ValidDateTime, 1, k) : k \in 0..Len(ValidDateTime)}
    \cup {[ValidDateTime EXCEPT ![i] = "x"] : i \in 1..Len(ValidDateTime)}
    \cup {ValidDateTime \o t : t \in {<<"Z">>, <<"'">>, <<"\n">>, <<"Z", "\r">>}}
    \cup {ValidDate \o t : t \in {<<"x">>, <<"\n">>, <<"'">>}}
    \cup {<<"0", "1", "/", "0", "1", "/", "2", "0", "2", "4">>}

DateArgs == {Undefined} \cup {Str(d) : d \in DatePool}

(***************************************************************************)
(* Calls                                                                   *)
(***************************************************************************)
NoCall == [fn |-> "none"]

\* no credentials request has been answered
NoAnswer == [status |-> "none"]

NoConfig == [apiKey |-> <<>>, baseId |-> <<>>]

\* no server process: the helpers and the client are used as a library
Init ==
    /\ pc = "idle"
    /\ call = NoCall
    /\ outcome = NoOutcome
    /\ executor = <<>>
    /\ requests = <<>>
    /\ phase = "library"
    /\ config = NoConfig
    /\ credentials = NoAnswer
    /\ tableSchemas = <<>>
    /\ calls = <<>>
    /\ responses = <<>>

CallEscapeFormulaString ==
    /\ pc = "idle"
    /\ \E s \in Strs(EscChars, MaxStrLen) :
        /\ call' = [fn |-> "escapeFormulaString", str |-> s]
        /\ outcome' = Returned(escapeFormulaString(s))
    /\ pc' = "done"
    /\ UNCHANGED executor
    /\ UNCHANGED <<requests, serverVars>>

CallSanitizeFieldName ==
    /\ pc = "idle"
    /\ \E s \in Strs(NameChars, MaxStrLen) :
        /\ call' = [fn |-> "sanitizeFieldName", fieldName |-> s]
        /\ outcome' = sanitizeFieldName(s)
    /\ pc' = "done"
    /\ UNCHANGED executor
    /\ UNCHANGED <<requests, serverVars>>

CallFindOverlappingAgeRanges ==
    /\ pc = "idle"
    /\ \E ages \in AgePairs, ranges \in Catalogs :
        /\ call' = [fn |-> "findOverlappingAgeRanges", minAge |-> ages[1],
                    maxAge |-> ages[2], availableRanges |-> ranges]
        /\ outcome' = Returned(findOverlappingAgeRanges(ages[1], ages[2], ranges))
    /\ pc' = "done"
    /\ UNCHANGED executor
    /\ UNCHANGED <<requests, serverVars>>

CallBuildAgeRangeFormula ==
    /\ pc = "idle"
    /\ \E name \in NamePool, ages \in AgePairs, ranges \in Catalogs :
        /\ call' = [fn |-> "buildAgeRangeFormula", fieldName |-> name,
                    minAge |-> ages[1], maxAge |-> ages[2],
                    availableRanges |-> ranges]
        /\ outcome' = buildAgeRangeFormula(name, ages[1], ages[2], ranges)
    /\ pc' = "done"
    /\ UNCHANGED executor
    /\ UNCHANGED <<requests, serverVars>>

CallResolveOptionsWithFuzzyMatch ==
    /\ pc = "idle"
    /\ \E values \in SeqsUpTo(ValuePool, MaxValues), options \in VocabularyPool :
        /\ call' = [fn |-> "resolveOptionsWithFuzzyMatch", values |-> values,
                    availableOptions |-> options]
        /\ outcome' = Returned(resolveOptionsWithFuzzyMatch(values, options))
    /\ pc' = "done"
    /\ UNCHANGED executor
    /\ UNCHANGED <<requests, serverVars>>

\* the arguments of a set-membership builder
SelectArgs ==
    [fieldName : NamePool, values : SeqsUpTo(ValuePool, MaxValues),
     availableOptions : VocabularyPool, useFuzzyMatch : BOOLEAN]

CallBuildMultipleSelectHasAny ==
    /\ pc = "idle"
    /\ \E a \in SelectArgs :
        /\ call' = [fn |-> "buildMultipleSelectHasAny"] @@ a
        /\ outcome' = buildMultipleSelectHasAny(a.fieldName, a.values,
                          a.availableOptions, a.useFuzzyMatch)
    /\ pc' = "done"
    /\ UNCHANGED executor
    /\ UNCHANGED <<requests, serverVars>>

CallBuildMultipleSelectHasAll ==
    /\ pc = "idle"
    /\ \E a \in SelectArgs :
        /\ call' = [fn |-> "buildMultipleSelectHasAll"] @@ a
        /\ outcome' = buildMultipleSelectHasAll(a.fieldName, a.values,
                          a.availableOptions, a.useFuzzyMatch)
    /\ pc' = "done"
    /\ UNCHANGED executor
    /\ UNCHANGED <<requests, serverVars>>

CallBuildMultipleSelectHasNone ==
    /\ pc = "idle"
    /\ \E a \in SelectArgs :
        /\ call' = [fn |-> "buildMultipleSelectHasNone"] @@ a
        /\ outcome' = buildMultipleSelectHasNone(a.fieldName, a.values,
                          a.availableOptions, a.useFuzzyMatch)
    /\ pc' = "done"
    /\ UNCHANGED executor
    /\ UNCHANGED <<requests, serverVars>>

CallBuildNumberRangeFormula ==
    /\ pc = "idle"
    /\ \E name \in NamePool, min \in NumberArgs, max \in NumberArgs :
        /\ call' = [fn |-> "buildNumberRangeFormula", fieldName |-> name,
                    min |-> min, max |-> max]
        /\ outcome' = buildNumberRangeFormula(name, min, max)
    /\ pc' = "done"
    /\ UNCHANGED executor
    /\ UNCHANGED <<requests, serverVars>>

CallBuildDateRangeFormula ==
    /\ pc = "idle"
    /\ \E name \in NamePool, startDate \in DateArgs, endDate \in DateArgs :
        /\ call' = [fn |-> "buildDateRangeFormula", fieldName |-> name,
                    startDate |-> startDate, endDate |-> endDate]
        /\ outcome' = buildDateRangeFormula(name, startDate, endDate)
    /\ pc' = "done"
    /\ UNCHANGED executor
    /\ UNCHANGED <<requests, serverVars>>

\* formulas given to the combinators: the two sentinels, the empty string,
\* a comparison and a function call
FormulaPool ==
    { TxtTrue, TxtFalse, <<>>,
      <<"{", "A", "}", " ", "=", " ", "'", "x", "'">>, <<"X", "(", ")">> }

CallCombineFormulasAnd ==
    /\ pc = "idle"
    /\ \E formulas \in SeqsUpTo(FormulaPool, MaxFormulas) :
        /\ call' = [fn |-> "combineFormulasAnd", formulas |-> formulas]
        /\ outcome' = Returned(combineFormulasAnd(formulas))
    /\ pc' = "done"
    /\ UNCHANGED executor
    /\ UNCHANGED <<requests, serverVars>>

CallCombineFormulasOr ==
    /\ pc = "idle"
    /\ \E formulas \in SeqsUpTo(FormulaPool, MaxFormulas) :
        /\ call' = [fn |-> "combineFormulasOr", formulas |-> formulas]
        /\ outcome' = Returned(combineFormulasOr(formulas))
    /\ pc' = "done"
    /\ UNCHANGED executor
    /\ UNCHANGED <<requests, serverVars>>

\* conditions of airtable_smart_query: every type and match type, builders
\* that return a sentinel, field names that pass the schema and are rejected
\* by the sanitizer (blank, line break), and conditions the schema rejects
ConditionPool ==
    { [type |-> "ageRange", fieldName |-> <<"A">>, minAge |-> 29, maxAge |-> 42,
       availableOptions |-> Undefined],
      [type |-> "ageRange", fieldName |-> <<"A">>, minAge |-> 2, maxAge |-> 2,
       availableOptions |-> Arr(<< <<"1", "-", "2">>, <<"3", "+">> >>)],
      [type |-> "ageRange", fieldName |-> <<"A">>, minAge |-> 2, maxAge |-> 2,
       availableOptions |-> Arr(<<>>)],
      [type |-> "multipleSelect", fieldName |-> <<"F">>, matchType |-> "hasAny",
       values |-> << <<"a">>, <<"b">> >>, availableOptions |-> Undefined,
       useFuzzyMatch |-> Undefined],
      [type |-> "multipleSelect", fieldName |-> <<"F">>, matchType |-> "hasAll",
       values |-> << <<"a">> >>, availableOptions |-> Arr(<< <<"A">>, <<"a", "b">> >>),
       useFuzzyMatch |-> Undefined],
      [type |-> "multipleSelect", fieldName |-> <<"F">>, matchType |-> "hasAll",
       values |-> << <<"a">> >>, availableOptions |-> Arr(<< <<"z">> >>),
       useFuzzyMatch |-> Bool(TRUE)],
      [type |-> "multipleSelect", fieldName |-> <<"(", "'">>, matchType |-> "hasNone",
       values |-> << <<"a", "'", "b">> >>, availableOptions |-> Arr(<< <<"z">> >>),
       useFuzzyMatch |-> Bool(FALSE)],
      [type |-> "multipleSelect", fieldName |-> <<" ">>, matchType |-> "hasAny",
       values |-> << <<"a">> >>, availableOptions |-> Undefined,
       useFuzzyMatch |-> Undefined],
      [type |-> "multipleSelect", fieldName |-> <<"F">>, matchType |-> "hasAny",
       values |-> <<>>, availableOptions |-> Undefined, useFuzzyMatch |-> Undefined],
      [type |-> "numberRange", fieldName |-> <<"N">>, min |-> Num(1), max |-> Undefined],
      [type |-> "numberRange", fieldName |-> <<"N">>, min |-> Undefined,
       max |-> Undefined],
      [type |-> "numberRange", fieldName |-> <<"N", "\n">>, min |-> Num(1),
       max |-> Num(2)],
      [type |-> "numberRange", fieldName |-> <<"{">>, min |-> Num(1), max |-> Num(2)],
      [type |-> "customFormula", formula |-> <<"X", "(", ")">>],
      [type |-> "customFormula", formula |-> TxtFalse],
      [type |-> "customFormula", formula |-> <<>>] }

SmartQueryArgs ==
    [table : {<<"T">>}, conditions : SeqsUpTo(ConditionPool, MaxConditions),
     combineWith : {"undefined", "AND", "OR"}]

\* what client.listRecords rejects with: an Error, an error of this server,
\* and a thrown value that is no Error
ExecutorErrors ==
    { [class |-> "Error", message |-> <<"E", "T", "I", "M", "E", "D", "O", "U", "T">>],
      [class |-> "ConfigurationError", message |-> <<"B", "a", "s", "e", " ", "I", "D">>],
      [class |-> "NonError", message |-> <<>>] }

\* the CallTool handler of airtable_smart_query up to its await: validation,
\* the formula of each condition, the combinator, and the call of
\* client.listRecords; anything thrown on the way is answered by the catch
\* block
CallSmartQuery ==
    /\ pc = "idle"
    /\ \E args \in SmartQueryArgs :
        \E final \in {finalFormula(args)} :
            /\ call' = [fn |-> "airtable_smart_query"] @@ args
            /\ IF final.status = "threw"
               THEN /\ outcome' = [status |-> "isError",
                                   value |-> ToolErrorResponse(final.error),
                                   error |-> NoError]
                    /\ executor' = <<>>
                    /\ pc' = "done"
               ELSE /\ outcome' = NoOutcome
                    /\ executor' = <<[table |-> args.table,
                                      filterByFormula |-> final.value]>>
                    /\ pc' = "awaiting"
    /\ UNCHANGED <<requests, serverVars>>

\* client.listRecords resolves: the handler returns the query, the formula
\* and the records
ListRecordsResolves ==
    /\ pc = "awaiting"
    /\ \E recordCount \in 0..1 :
        outcome' = Returned([formula |-> executor[1].filterByFormula,
                             recordCount |-> recordCount])
    /\ pc' = "done"
    /\ UNCHANGED <<call, executor>>
    /\ UNCHANGED <<requests, serverVars>>

\* client.listRecords rejects: the catch block answers
ListRecordsRejects ==
    /\ pc = "awaiting"
    /\ \E error \in ExecutorErrors :
        outcome' = [status |-> "isError", value |-> ToolErrorResponse(error),
                    error |-> NoError]
    /\ pc' = "done"
    /\ UNCHANGED <<call, executor>>
    /\ UNCHANGED <<requests, serverVars>>

\* words of the messages of thrown errors: the words wrapError looks for, in
\* the spellings it tells apart, and text that is none of them
MessageWords ==
    {
      <<"A", "P", "I">>,
      <<"A", "I", "R", "T", "A", "B", "L", "E">>,
      <<"U", "n", "a", "u", "t", "h", "o", "r", "i", "z", "e", "d">>,
      <<"i", "n", "v", "a", "l", "i", "d", " ", "a", "p", "i", " ", "k",
        "e", "y">>,
      <<"I", "n", "v", "a", "l", "i", "d", " ", "A", "P", "I", " ", "k",
        "e", "y">>,
      <<"I", "n", "v", "a", "l", "i", "d", " ", "k", "e", "y">>,
      <<"a", "u", "t", "h", "e", "n", "t", "i", "c", "a", "t", "i", "o",
        "n", " ", "f", "a", "i", "l", "e", "d">>,
      <<"N", "o", "t", " ", "f", "o", "u", "n", "d">>,
      <<"c", "o", "u", "l", "d", " ", "n", "o", "t", " ", "f", "i", "n",
        "d">>,
      <<"t", "a", "b", "l", "e", " ", "'", "u", "s", "e", "r", "s", "'">>,
      <<" ", "s", "e", "c", "r", "e", "t">>,
      <<"x">> }

\* the messages of the documented examples
MsgDatabasePassword ==
    <<"D", "a", "t", "a", "b", "a", "s", "e", " ", "p", "a", "s", "s", "w",
      "o", "r", "d", ":", " ", "s", "e", "c", "r", "e", "t", "1", "2", "3">>

MsgInvalidKeyForUser ==
    <<"I", "n", "v", "a", "l", "i", "d", " ", "k", "e", "y", " ", "f", "o",
      "r", " ", "u", "s", "e", "r", " ", "j", "o", "h", "n", "@", "e", "x",
      "a", "m", "p", "l", "e", ".", "c", "o", "m">>

ErrorMessages ==
    {Flatten(ws) : ws \in SeqsUpTo(MessageWords, MaxWords)}
        \cup {MsgDatabasePassword, MsgInvalidKeyForUser}

\* what a handler can throw: an Error with a message, an error of this
\* server, a value that is no Error
ThrownPool ==
    {[class |-> "Error", message |-> m] : m \in ErrorMessages}
        \cup {[class |-> "NonError", message |-> <<>>]}
        \cup {[class |-> c, message |-> <<"I", "n", "v", "a", "l", "i", "d", " ", "k", "e", "y">>] :
                  c \in {"ValidationError", "ConfigurationError", "AirtableAPIError"}}

\* segments of AirtableAPIError messages: an API key in two cases, a base ID,
\* a record ID, a base ID one character short, the Bearer keyword, and
\* separators and tokens
MessageSegments ==
    {
      <<"k", "e", "y", "A", "B", "C", "D", "E", "F", "G", "H", "I", "J",
        "K", "L", "M", "N">>,
      <<"K", "E", "Y", "a", "b", "c", "d", "e", "f", "g", "h", "i", "j",
        "k", "l", "m", "n">>,
      <<"a", "p", "p", "A", "B", "C", "D", "E", "F", "G", "H", "I", "J",
        "K", "L", "M", "N">>,
      <<"r", "e", "c", "A", "B", "C", "D", "E", "F", "G", "H", "I", "J",
        "K", "L", "M", "N">>,
      <<"a", "p", "p", "1", "2", "3", "4", "5", "6", "7", "8", "9", "0",
        "1", "2", "3">>,
      <<"B", "e", "a", "r", "e", "r", " ">>,
      <<" ">>,
      <<"x">>,
      <<"t", "o", "k", ".", "1">> }

MsgSeveralCredentials ==
    <<"F", "a", "i", "l", "e", "d", ":", " ", "b", "a", "s", "e", " ", "a",
      "p", "p", "A", "B", "C", "D", "E", "F", "1", "2", "3", "4", "5", "6",
      "7", "8", " ", "w", "i", "t", "h", " ", "k", "e", "y", " ", "k", "e",
      "y", "X", "Y", "Z", "7", "8", "9", "0", "1", "2", "3", "4", "5", "6",
      "7", " ", "f", "o", "r", " ", "r", "e", "c", "o", "r", "d", " ", "r",
      "e", "c", "D", "E", "F", "4", "5", "6", "7", "8", "9", "0", "1", "2",
      "3", "4">>

ApiErrorMessages ==
    {Flatten(segs) : segs \in SeqsUpTo(MessageSegments, MaxSegments)}
        \cup {MsgSeveralCredentials}

CallWrapError ==
    /\ pc = "idle"
    /\ \E error \in ThrownPool :
        /\ call' = [fn |-> "wrapError", error |-> error]
        /\ outcome' = Returned([wrapped |-> wrapError(error),
                                client |-> toClientError(wrapError(error))])
    /\ pc' = "done"
    /\ UNCHANGED executor
    /\ UNCHANGED <<requests, serverVars>>

CallToClientError ==
    /\ pc = "idle"
    /\ \E message \in ApiErrorMessages :
        /\ call' = [fn |-> "toClientError",
                    error |-> MCPError("AirtableAPIError", message)]
        /\ outcome' = Returned(toClientError(MCPError("AirtableAPIError", message)))
    /\ pc' = "done"
    /\ UNCHANGED executor
    /\ UNCHANGED <<requests, serverVars>>

\* field names of the schemas: one that no pattern matches, one that an
\* attachment pattern matches (/photo/i), one that a long-text pattern matches
\* (/notes?/i)
FldName == <<"N", "a", "m", "e">>
FldPhoto == <<"P", "h", "o", "t", "o">>
FldNotes == <<"N", "o", "t", "e", "s">>
FldEmail == <<"E", "m", "a", "i", "l">>

TableT == <<"T">>

BaseA == <<"a", "p", "p", "A", "A", "A", "A", "A", "A", "A", "A", "A", "A", "A", "A", "A", "A">>

Field(name, type) == [name |-> name, type |-> type, options |-> Undefined]

\* cached schemas of the table: the basic schema without fields, and schemas
\* with and without fields that the patterns match
ListSchemaPool ==
    { BasicSchema(TableT),
      [id |-> <<"t", "b", "l", "1">>, name |-> TableT,
       fields |-> << Field(FldName, "singleLineText"),
                     Field(FldPhoto, "multipleAttachments"),
                     Field(FldNotes, "multilineText") >>],
      [id |-> <<"t", "b", "l", "2">>, name |-> TableT,
       fields |-> << Field(FldName, "singleLineText"),
                     Field(FldEmail, "email") >>],
      [id |-> <<"t", "b", "l", "3">>, name |-> TableT,
       fields |-> << Field(FldPhoto, "multipleAttachments") >>] }

\* the arguments of airtable_list_records: every combination of the
\* exclusion options, with and without an explicit list, a preset and a base
ListRecordsArgs ==
    [baseId : {Undefined, Str(BaseA)},
     table : {TableT},
     filterByFormula : {Undefined},
     maxRecords : {Undefined},
     view : {Undefined},
     sort : {Undefined},
     fields : {Undefined, Arr(<<FldName>>)},
     excludeFields : {Undefined, Arr(<<>>), Arr(<<FldName>>), Arr(<<FldNotes>>),
                      Arr(<<FldPhoto, FldName>>), Arr(<<<<"{">>>>)},
     excludeAttachments : {Undefined, Bool(TRUE), Bool(FALSE)},
     excludeLongText : {Undefined, Bool(TRUE), Bool(FALSE)},
     preset : {Undefined, Str(<<"m", "i", "n", "i", "m", "a", "l">>),
               Str(<<"f", "u", "l", "l">>)}]

\* the airtable_list_records handler on a client without a default base
\* whose cache holds schema for the table: validation, the parameters, and
\* client.listRecords up to its request
CallListRecords ==
    /\ pc = "idle"
    /\ \E args \in ListRecordsArgs, schema \in ListSchemaPool :
        \E sent \in {IF ~listRecordsSchema(args)
                     THEN Threw("ValidationError", MsgInvalidToolArguments)
                     ELSE listRecords(<<>>, args.table, listRecordsParams(args),
                                      args.baseId, schema)} :
            /\ call' = [fn |-> "airtable_list_records", args |-> args,
                        schema |-> schema]
            /\ IF sent.status = "threw"
               THEN /\ outcome' = [status |-> "isError",
                                   value |-> ToolErrorResponse(sent.error),
                                   error |-> NoError]
                    /\ requests' = <<>>
                    /\ pc' = "done"
               ELSE /\ outcome' = NoOutcome
                    /\ requests' = <<sent.value>>
                    /\ pc' = "requesting"
    /\ UNCHANGED <<executor, serverVars>>

FldStatus == <<"S", "t", "a", "t", "u", "s">>
FldCalc == <<"C", "a", "l", "c">>
FldOther == <<"O", "t", "h", "e", "r">>

\* the field types formatFieldValue refuses to set, and 'button', which
\* FieldType lists and the documentation counts among the read-only fields
ComputedTypes ==
    {"formula", "rollup", "count", "lookup", "createdTime", "createdBy",
     "lastModifiedTime", "lastModifiedBy", "autoNumber", "aiText", "aiImage"}

ReadOnlyTypes == ComputedTypes \cup {"button"}

Choices(names) == [t |-> "object", choices |-> Arr(names)]

\* cached schemas of the table written to: a text field, a single select
\* with the choices a and b, an email field, and a field of a read-only type
WriteSchema(type) ==
    [id |-> <<"t", "b", "l", "1">>, name |-> TableT,
     fields |-> << Field(FldName, "singleLineText"),
                   [name |-> FldStatus, type |-> "singleSelect",
                    options |-> Choices(<< <<"a">>, <<"b">> >>)],
                   Field(FldEmail, "email"),
                   Field(FldCalc, type) >>]

WriteSchemaPool == {WriteSchema(type) : type \in ReadOnlyTypes} \cup
  {BasicSchema(TableT)}

\* values given to the read-only field
CalcValues == {Null, Undefined, Str(<<"a">>), Str(<<>>), Num(1), Bool(FALSE),
  Arr(<<>>)}

\* the fields of one record: a read-only field alone and beside a writable
\* one, a valid and an invalid choice, a valid and an invalid email address,
\* and a field the schema does not know
RecordFieldsPool ==
    { <<Entry(FldCalc, v)>> : v \in CalcValues }
    \cup { <<Entry(FldName, Str(<<"a">>))>>,
           <<Entry(FldName, Str(<<"a">>)), Entry(FldCalc, Str(<<"a">>))>>,
           <<Entry(FldCalc, Num(1)), Entry(FldName, Num(1))>>,
           <<Entry(FldStatus, Str(<<"a">>))>>,
           <<Entry(FldStatus, Str(<<"x">>))>>,
           <<Entry(FldEmail, Str(<<"a", "@", "b", ".", "c">>))>>,
           <<Entry(FldEmail, Str(<<"a">>))>>,
           <<Entry(FldOther, Str(<<"a">>))>> }

RecId == <<"r", "e", "c", "1">>

\* records of a batch
BatchFieldsPool ==
    { <<Entry(FldName, Str(<<"a">>))>>,
      <<Entry(FldCalc, Str(<<"a">>))>>,
      <<Entry(FldCalc, Null)>>,
      <<Entry(FldStatus, Str(<<"x">>))>>,
      <<Entry(FldEmail, Str(<<"a", "@", "b", ".", "c">>)), Entry(FldName,
        Num(1))>> }

\* batches: empty, of one and two records, and of eleven records, valid ones
\* and ones whose first record is invalid
BatchPool ==
    {<<>>}
    \cup { <<r>> : r \in BatchFieldsPool }
    \cup { <<r1, r2>> : r1 \in BatchFieldsPool, r2 \in BatchFieldsPool }
    \cup { [i \in 1..11 |-> IF i = 1 THEN r ELSE <<Entry(FldName,
      Str(<<"a">>))>>] :
              r \in BatchFieldsPool }

ClientMethods ==
    {"createRecord", "updateRecord", "batchCreateRecords",
      "batchUpdateRecords"}

\* what the caller of a client method sees once the method has run up to its
\* request: the request is in flight, or the method has returned or thrown
ClientCalled(fn, args, schema, sent) ==
    /\ call' = [fn |-> fn, args |-> args, schema |-> schema]
    /\ IF sent.status = "returned" /\ IsRequest(sent.value)
       THEN /\ outcome' = NoOutcome
            /\ requests' = <<sent.value>>
            /\ pc' = "requesting"
       ELSE /\ outcome' = sent
            /\ requests' = <<>>
            /\ pc' = "done"
    /\ UNCHANGED <<executor, serverVars>>

\* client.createRecord on a client without a default base whose cache holds
\* the schema
CallCreateRecord ==
    /\ pc = "idle"
    /\ \E fields \in RecordFieldsPool, baseId \in {Undefined, Str(BaseA)},
          schema \in WriteSchemaPool :
        \E sent \in {createRecord(<<>>, TableT, fields, baseId, schema)} :
            ClientCalled("createRecord",
                         [records |-> <<fields>>, baseId |-> baseId], schema,
                           sent)

CallUpdateRecord ==
    /\ pc = "idle"
    /\ \E fields \in RecordFieldsPool, baseId \in {Undefined, Str(BaseA)},
          schema \in WriteSchemaPool :
        \E sent \in {updateRecord(<<>>, TableT, RecId, fields, baseId,
          schema)} :
            ClientCalled("updateRecord",
                         [records |-> <<fields>>, baseId |-> baseId], schema,
                           sent)

CallBatchCreateRecords ==
    /\ pc = "idle"
    /\ \E records \in BatchPool, baseId \in {Undefined, Str(BaseA)},
          schema \in WriteSchemaPool :
        \E sent \in {batchCreateRecords(<<>>, TableT, records, baseId,
          schema)} :
            ClientCalled("batchCreateRecords",
                         [records |-> records, baseId |-> baseId], schema,
                           sent)

CallBatchUpdateRecords ==
    /\ pc = "idle"
    /\ \E records \in BatchPool, baseId \in {Undefined, Str(BaseA)},
          schema \in WriteSchemaPool :
        \E sent \in {batchUpdateRecords(<<>>, TableT,
                        [i \in 1..Len(records) |-> [id |-> RecId, fields |->
                          records[i]]],
                        baseId, schema)} :
            ClientCalled("batchUpdateRecords",
                         [records |-> records, baseId |-> baseId], schema,
                           sent)

\* the request to Airtable resolves: the records are returned
RequestResolves ==
    /\ pc = "requesting"
    /\ \E recordCount \in 0..1 :
        outcome' = Returned([request |-> requests[1], recordCount |-> recordCount])
    /\ pc' = "done"
    /\ UNCHANGED <<call, executor, requests, serverVars>>

\* the request to Airtable rejects: a client method rejects with the error,
\* the catch block of a tool handler answers
RequestRejects ==
    /\ pc = "requesting"
    /\ \E error \in ExecutorErrors :
        outcome' = IF call.fn \in ClientMethods
                   THEN Threw(error.class, error.message)
                   ELSE [status |-> "isError", value |-> ToolErrorResponse(error),
                         error |-> NoError]
    /\ pc' = "done"
    /\ UNCHANGED <<call, executor, requests, serverVars>>

\* the caller has consumed the result; the helpers keep no state between
\* calls
Return ==
    /\ pc = "done"
    /\ pc' = "idle"
    /\ call' = NoCall
    /\ outcome' = NoOutcome
    /\ executor' = <<>>
    /\ requests' = <<>>
    /\ UNCHANGED serverVars

Next ==
    \/ CallEscapeFormulaString
    \/ CallSanitizeFieldName
    \/ CallFindOverlappingAgeRanges
    \/ CallBuildAgeRangeFormula
    \/ CallResolveOptionsWithFuzzyMatch
    \/ CallBuildMultipleSelectHasAny
    \/ CallBuildMultipleSelectHasAll
    \/ CallBuildMultipleSelectHasNone
    \/ CallBuildNumberRangeFormula
    \/ CallBuildDateRangeFormula
    \/ CallCombineFormulasAnd
    \/ CallCombineFormulasOr
    \/ CallSmartQuery
    \/ ListRecordsResolves
    \/ ListRecordsRejects
    \/ CallWrapError
    \/ CallToClientError
    \/ CallListRecords
    \/ CallCreateRecord
    \/ CallUpdateRecord
    \/ CallBatchCreateRecords
    \/ CallBatchUpdateRecords
    \/ RequestResolves
    \/ RequestRejects
    \/ Return

Spec == Init /\ [][Next]_vars

(***************************************************************************)
(* The server process: inputs, steps and specification                     *)
(***************************************************************************)
BaseB == <<"a", "p", "p", "B", "B", "B", "B", "B", "B", "B", "B", "B", "B",
  "B", "B", "B", "B">>

\* values of AIRTABLE_PAT: absent, a legacy key, tokens of 19 and 20
\* characters
PatPool ==
    { <<>>, <<"k", "e", "y", "A", "A", "A", "A", "A", "A", "A", "A", "A",
      "A", "A", "A", "A", "A", "A", "A", "A">>, <<"p", "a", "t", "A", "A", "A",
      "A", "A", "A", "A", "A", "A", "A", "A", "A", "A", "A", "A", "A">>,
      <<"p", "a", "t", "A", "A", "A", "A", "A", "A", "A", "A", "A", "A", "A",
        "A", "A", "A", "A", "A", "A">> }

\* values of AIRTABLE_BASE_ID: absent, well-formed, too short, too long, and
\* of the right length without the prefix
BaseIdPool ==
    { <<>>, BaseA, <<"a", "p", "p", "A">>, <<"a", "p", "p", "A", "A", "A",
      "A", "A", "A", "A", "A", "A", "A", "A", "A", "A", "A", "A">>, <<"b", "a",
      "s", "A", "A", "A", "A", "A", "A", "A", "A", "A", "A", "A", "A", "A",
      "A">> }

\* what the credentials request meets
CredentialAnswers ==
    { Response(200), Response(401), Response(403), Response(404),
      Response(500),
      FetchRejected }

\* the table T as the Metadata API describes it in each base: the choices of
\* Status differ
MetadataSchema(base) ==
    [id |-> IF base = BaseA THEN <<"t", "b", "l", "A">> ELSE <<"t", "b", "l",
      "B">>,
     name |-> TableT,
     fields |-> << Field(FldName, "singleLineText"),
                   [name |-> FldStatus, type |-> "singleSelect",
                    options |-> IF base = BaseA
                                THEN Choices(<< <<"a">>, <<"b">> >>)
                                ELSE Choices(<< <<"x">>, <<"y">> >>)] >>]

\* the fields airtable_set_table_schema is given
SetFields ==
    << [name |-> FldStatus, type |-> "singleSelect",
        options |-> Choices(<< <<"s">> >>)] >>

ListArgs(baseId, table) ==
    [baseId |-> baseId, table |-> table, filterByFormula |-> Undefined,
     maxRecords |-> Undefined, view |-> Undefined, sort |-> Undefined,
     fields |-> Undefined, excludeFields |-> Undefined,
     excludeAttachments |-> Undefined, excludeLongText |-> Undefined,
     preset |-> Undefined]

SmartArgs(baseId, fieldName) ==
    [baseId |-> baseId, table |-> TableT,
     conditions |-> << [type |-> "numberRange", fieldName |-> fieldName,
                        min |-> Num(1), max |-> Undefined] >>,
     combineWith |-> "undefined"]

ToolCall(tool, args) == [tool |-> tool, args |-> args]

\* the tool calls the server receives: the table of base A and of no base
\* listed, a record created in either base, a record without fields, which
\* the tool's schema rejects, a schema set, a smart query whose builder
\* throws and one that succeeds, and a tool that does not exist
ServerCallPool ==
    { ToolCall("airtable_list_records", ListArgs(Str(BaseA), TableT)),
      ToolCall("airtable_list_records", ListArgs(Undefined, TableT)),
      ToolCall("airtable_create_record",
               [baseId |-> Str(BaseA), table |-> TableT,
                fields |-> <<Entry(FldStatus, Str(<<"a">>))>>]),
      ToolCall("airtable_create_record",
               [baseId |-> Str(BaseB), table |-> TableT,
                fields |-> <<Entry(FldStatus, Str(<<"a">>))>>]),
      ToolCall("airtable_create_record",
               [baseId |-> Str(BaseA), table |-> TableT, fields |-> <<>>]),
      ToolCall("airtable_set_table_schema",
               [baseId |-> Str(BaseA), table |-> TableT, fields |->
                 SetFields]),
      ToolCall("airtable_smart_query", SmartArgs(Str(BaseA), <<"N", "\n">>)),
      ToolCall("airtable_smart_query", SmartArgs(Str(BaseA), <<"N">>)),
      ToolCall("airtable_drop_table", [table |-> TableT, baseId |->
        Undefined]) }

\* the process has started: main() has read the environment
ServerInit ==
    /\ pc = "idle"
    /\ call = NoCall
    /\ outcome = NoOutcome
    /\ executor = <<>>
    /\ requests = <<>>
    /\ phase = "starting"
    /\ config \in {getConfig(pat, baseId) : pat \in PatPool, baseId \in
      BaseIdPool}
    /\ credentials = NoAnswer
    /\ tableSchemas = <<>>
    /\ calls = <<>>
    /\ responses = <<>>

\* main(): validateConfig, then the client is built and validateCredentials
\* sends its request; an exception ends the process
ValidateConfig ==
    /\ phase = "starting"
    /\ phase' = IF validateConfig(config).status = "threw" THEN "exited"
                ELSE "validating"
    /\ UNCHANGED <<pc, call, outcome, executor, requests>>
    /\ UNCHANGED <<config, credentials, tableSchemas, calls, responses>>

\* the credentials request is answered: validateCredentials returns and the
\* transport is connected, or it throws and the process exits
CredentialsAnswered ==
    /\ phase = "validating"
    /\ \E answer \in CredentialAnswers :
        /\ credentials' = answer
        /\ phase' = IF validateCredentials(config, answer).status = "threw"
                    THEN "exited" ELSE "serving"
    /\ UNCHANGED <<pc, call, outcome, executor, requests>>
    /\ UNCHANGED <<config, tableSchemas, calls, responses>>

\* the connected transport delivers a tool call: the handler runs to its
\* first request to the network or to its response
ReceiveCall ==
    /\ phase = "serving"
    /\ Len(calls) < MaxCalls
    /\ \E c \in ServerCallPool :
        \E start \in {HandlerStart(c.tool, c.args)},
           lookup \in {getTableSchema(tableSchemas, config, c.args.table,
                                      c.args.baseId)} :
          \E sent \in {IF CallsClient(c.tool, start, lookup)
                       THEN ClientCall(config, c.tool, c.args, start.value,
                                       lookup.value)
                       ELSE NoOutcome} :
            \E step \in {HandleCall(tableSchemas, c.tool, c.args, start, lookup,
                                    sent)} :
              /\ calls' = Append(calls, [tool |-> c.tool, args |-> c.args,
                                         pc |-> step.pc, base |-> step.base,
                                         formula |-> start.value,
                                         schema |-> step.schema])
              /\ tableSchemas' = step.cache
              /\ requests' = Append(requests, step.requests)
              /\ responses' = Append(responses, Respond(step.result))
    /\ UNCHANGED <<pc, call, outcome, executor>>
    /\ UNCHANGED <<phase, config, credentials>>

\* the metadata request of getTableSchema is answered: the table's schema is
\* cached when the response has it, the basic schema otherwise, and the
\* handler goes on to its request or its response
MetadataAnswered ==
    /\ \E i \in 1..Len(calls) :
        /\ calls[i].pc = "fetching"
        /\ \E found \in BOOLEAN :
            \E schema \in {IF found THEN MetadataSchema(calls[i].base)
                           ELSE BasicSchema(calls[i].args.table)} :
              \E sent \in {ClientCall(config, calls[i].tool, calls[i].args,
                                      calls[i].formula, schema)} :
                \E step \in {WithSchema(schema,
                                 Put(tableSchemas, calls[i].args.table, schema),
                                 sent)} :
                  /\ calls' = [calls EXCEPT ![i].pc = step.pc,
                                            ![i].schema = schema]
                  /\ tableSchemas' = step.cache
                  /\ requests' = [requests EXCEPT ![i] = @ \o step.requests]
                  /\ responses' = [responses EXCEPT
                                      ![i] = @ \o Respond(step.result)]
    /\ UNCHANGED <<pc, call, outcome, executor>>
    /\ UNCHANGED <<phase, config, credentials>>

\* the request to Airtable resolves: the handler returns its result
RequestResolved ==
    /\ \E i \in 1..Len(calls) :
        /\ calls[i].pc = "requesting"
        /\ calls' = [calls EXCEPT ![i].pc = "done"]
        /\ responses' = [responses EXCEPT
                            ![i] = @ \o Respond(Returned(requests[i][1]))]
    /\ UNCHANGED <<pc, call, outcome, executor, requests>>
    /\ UNCHANGED <<phase, config, credentials, tableSchemas>>

\* what a rejected request to Airtable throws in the server process: an
\* Error, or a value that is no Error
RejectionPool == {e \in ExecutorErrors : e.class # "ConfigurationError"}

\* the request to Airtable rejects: the catch block answers
RequestRejected ==
    /\ \E i \in 1..Len(calls) :
        /\ calls[i].pc = "requesting"
        /\ \E error \in RejectionPool :
            responses' = [responses EXCEPT
                            ![i] = @ \o Respond(Threw(error.class, error.message))]
        /\ calls' = [calls EXCEPT ![i].pc = "done"]
    /\ UNCHANGED <<pc, call, outcome, executor, requests>>
    /\ UNCHANGED <<phase, config, credentials, tableSchemas>>

ServerNext ==
    \/ ValidateConfig
    \/ CredentialsAnswered
    \/ ReceiveCall
    \/ MetadataAnswered
    \/ RequestResolved
    \/ RequestRejected

ServerSpec == ServerInit /\ [][ServerNext]_vars

(***************************************************************************)
(* Reading a formula back                                                  *)
(***************************************************************************)
\* Reads formula text with the doubled-quote convention: outside a literal a
\* quote opens a literal and {...} is a field reference; inside a literal two
\* quotes are one quote of the content and a single quote closes it.
\* The reader is in mode "code", "field", "literal", or "quote" when the last
\* character was a quote inside a literal, which either starts a pair or
\* closed the literal; cur is the content read so far of the literal.
ReadChar(st, c) ==
    CASE st.mode = "code" ->
            IF c = Quote THEN [st EXCEPT !.mode = "literal", !.cur = <<>>]
            ELSE IF c = "{" THEN [st EXCEPT !.mode = "field"]
            ELSE st
      [] st.mode = "field" ->
            IF c = "}" THEN [st EXCEPT !.mode = "code"] ELSE st
      [] st.mode = "literal" ->
            IF c = Quote THEN [st EXCEPT !.mode = "quote"]
            ELSE [st EXCEPT !.cur = Append(st.cur, c)]
      [] st.mode = "quote" ->
            IF c = Quote
            THEN [st EXCEPT !.mode = "literal", !.cur = Append(st.cur, Quote)]
            ELSE LET closed == [mode |-> "code", cur |-> <<>>,
                                lits |-> Append(st.lits, st.cur)]
                 IN  IF c = "{" THEN [closed EXCEPT !.mode = "field"] ELSE closed

\* the reader's state after f[lo..hi], read from state st; the state after the
\* first half is computed before the second half is entered
RECURSIVE ReadRange(_, _, _, _)
ReadRange(f, lo, hi, st) ==
    IF lo > hi THEN st
    ELSE IF lo = hi THEN ReadChar(st, f[lo])
    ELSE LET mid == (lo + hi) \div 2
             half == ReadRange(f, lo, mid, st)
         IN  IF half.mode \in {"code", "field", "literal", "quote"}
             THEN ReadRange(f, mid + 1, hi, half)
             ELSE half

\* the literals of f in order, and whether f ends inside a literal or a field
\* reference
ReadFormula(f) ==
    LET st == ReadRange(f, 1, Len(f), [mode |-> "code", cur |-> <<>>, lits |-> <<>>])
    IN  [literals |-> IF st.mode = "quote" THEN Append(st.lits, st.cur) ELSE st.lits,
         open |-> st.mode \in {"literal", "field"}]

\* s with every single quote written twice
DoubledQuotes(s) ==
    Flatten([i \in 1..Len(s) |-> IF s[i] = Quote THEN <<Quote, Quote>> ELSE <<s[i]>>])

\* the lengths of the maximal runs of quotes of s, n being the run in progress
RECURSIVE QuoteRunsFrom(_, _)
QuoteRunsFrom(s, n) ==
    IF s = <<>> THEN (IF n > 0 THEN <<n>> ELSE <<>>)
    ELSE IF Head(s) = Quote THEN QuoteRunsFrom(Tail(s), n + 1)
    ELSE (IF n > 0 THEN <<n>> ELSE <<>>) \o QuoteRunsFrom(Tail(s), 0)

QuoteRuns(s) == QuoteRunsFrom(s, 0)

StripQuotes(s) == SelectSeq(s, LAMBDA c : c # Quote)

\* every pair of quotes read as one quote
RECURSIVE Undouble(_)
Undouble(s) ==
    IF s = <<>> THEN <<>>
    ELSE IF Len(s) >= 2 /\ s[1] = Quote /\ s[2] = Quote
         THEN <<Quote>> \o Undouble(Tail(Tail(s)))
         ELSE <<Head(s)>> \o Undouble(Tail(s))

Done(fn) == pc = "done" /\ call.fn = fn

SelectBuilders ==
    {"buildMultipleSelectHasAny", "buildMultipleSelectHasAll",
     "buildMultipleSelectHasNone"}

Builders ==
    SelectBuilders \cup
    {"buildAgeRangeFormula", "buildNumberRangeFormula", "buildDateRangeFormula"}

\* the values of a set-membership call go into the formula without fuzzy
\* resolution
Verbatim == call.availableOptions = Undefined \/ ~call.useFuzzyMatch

(***************************************************************************)
(* Properties                                                              *)
(***************************************************************************)

\* C1: injection containment.  For an accepted field name, a set-membership
\* builder given values that are not fuzzy-resolved returns a formula whose
\* literals, read with the doubled-quote convention, are exactly the values
\* in order, each present as '<value with its quotes doubled>', and no
\* literal is left open; the age-range builder does the same for the
\* overlapping bucket labels.
C1_InjectionContained ==
    LET read == ReadFormula(outcome.value)
    IN  /\ (pc = "done" /\ call.fn \in SelectBuilders /\ Verbatim
              /\ outcome.status = "returned" /\ call.values # <<>>) =>
                /\ read.literals = call.values
                /\ ~read.open
                /\ \A i \in 1..Len(call.values) :
                     Includes(outcome.value,
                              <<Quote>> \o DoubledQuotes(call.values[i]) \o <<Quote>>)
        /\ (Done("buildAgeRangeFormula") /\ outcome.status = "returned"
              /\ outcome.value # TxtFalse) =>
                /\ ~read.open
                /\ read.literals # <<>>
                /\ \A i \in 1..Len(read.literals) :
                     /\ \E j \in 1..Len(call.availableRanges) :
                            call.availableRanges[j] = read.literals[i]
                     /\ Includes(outcome.value,
                                 <<Quote>> \o DoubledQuotes(read.literals[i]) \o <<Quote>>)

\* C1 witness: hasAny returned a formula for two verbatim values, one of
\* them holding a quote, under a field name that itself holds a quote
C1_Witness ==
    /\ Done("buildMultipleSelectHasAny") /\ Verbatim
    /\ outcome.status = "returned"
    /\ Len(call.values) = 2
    /\ \E i \in 1..2 : Includes(call.values[i], <<Quote>>)
    /\ Includes(call.fieldName, <<Quote>>)

\* C2 as stated: the output of escapeFormulaString never holds a backslash
\* immediately followed by a single quote
C2_NeverBackslashQuote ==
    Done("escapeFormulaString") =>
        ~Includes(outcome.value, <<Backslash, Quote>>)

\* C2 amended: the output of escapeFormulaString holds a backslash
\* immediately followed by a single quote exactly when its input does; the
\* function adds no backslash (as many backslashes come out as went in)
C2_BackslashQuoteOnlyFromInput ==
    Done("escapeFormulaString") =>
        /\ Includes(outcome.value, <<Backslash, Quote>>)
              <=> Includes(call.str, <<Backslash, Quote>>)
        /\ Len(SelectSeq(outcome.value, LAMBDA c : c = Backslash))
              = Len(SelectSeq(call.str, LAMBDA c : c = Backslash))

\* C2 witness: an input with a quote and a backslash but no backslash-quote
\* pair, whose output has no such pair either
C2_Witness ==
    /\ Done("escapeFormulaString")
    /\ Includes(call.str, <<Quote>>) /\ Includes(call.str, <<Backslash>>)
    /\ ~Includes(call.str, <<Backslash, Quote>>)
    /\ ~Includes(outcome.value, <<Backslash, Quote>>)

\* C3: escapeFormulaString never throws and doubles every single quote: each
\* maximal run of quotes of the output is twice the corresponding run of the
\* input (so even), the other characters are unchanged and in order, and
\* un-doubling the output gives back the input
C3_EscapeDoublesQuotes ==
    Done("escapeFormulaString") =>
        /\ outcome.status = "returned"
        /\ QuoteRuns(outcome.value)
              = [i \in 1..Len(QuoteRuns(call.str)) |-> 2 * QuoteRuns(call.str)[i]]
        /\ \A i \in 1..Len(QuoteRuns(outcome.value)) :
              QuoteRuns(outcome.value)[i] % 2 = 0
        /\ StripQuotes(outcome.value) = StripQuotes(call.str)
        /\ Undouble(outcome.value) = call.str

\* C3 witness: an input with two separate runs of quotes
C3_Witness ==
    /\ Done("escapeFormulaString")
    /\ Len(QuoteRuns(call.str)) = 2
    /\ Len(outcome.value) > Len(call.str)

HasForbiddenChar(s) == \E i \in 1..Len(s) : s[i] \in {"{", "}", "\n", "\r"}

IsBlank(s) == \A i \in 1..Len(s) : s[i] \in WhiteSpace

\* v is s without its leading and trailing white space
IsTrimOf(v, s) ==
    \E i \in 1..Len(s), j \in 1..Len(s) :
        /\ i <= j
        /\ v = SubSeq(s, i, j)
        /\ s[i] \notin WhiteSpace /\ s[j] \notin WhiteSpace
        /\ \A k \in 1..Len(s) : (k < i \/ k > j) => s[k] \in WhiteSpace

\* C4: sanitizeFieldName throws for every string holding '{', '}', a newline
\* or a carriage return, and for the empty and every white-space-only string;
\* for every other string it returns the input trimmed and otherwise
\* unchanged.  Every builder called with a field name of the first two kinds
\* throws.
C4_IdentifierRejection ==
    /\ Done("sanitizeFieldName") =>
          IF HasForbiddenChar(call.fieldName) \/ IsBlank(call.fieldName)
          THEN outcome.status = "threw"
          ELSE /\ outcome.status = "returned"
               /\ IsTrimOf(outcome.value, call.fieldName)
    /\ (pc = "done" /\ call.fn \in Builders
          /\ (HasForbiddenChar(call.fieldName) \/ IsBlank(call.fieldName))) =>
            outcome.status = "threw"

\* C4 witness: a padded name was returned trimmed
C4_Witness ==
    /\ Done("sanitizeFieldName")
    /\ outcome.status = "returned"
    /\ Len(outcome.value) < Len(call.fieldName)
    /\ Len(outcome.value) >= 2

\* the call was rejected by the identifier sanitizer
RejectedBySanitizer ==
    /\ pc = "done"
    /\ call.fn \in Builders \cup {"sanitizeFieldName"}
    /\ outcome.status = "threw"
    /\ sanitizeFieldName(call.fieldName).status = "threw"

\* C5: every rejection by the identifier sanitizer is raised as a
\* ValidationError-class error, so the tool call that hit it is answered with
\* the code VALIDATION_ERROR
C5_SanitizerRaisesValidationError ==
    RejectedBySanitizer =>
        /\ outcome.error.class = "ValidationError"
        /\ ToolErrorResponse(outcome.error).code = "VALIDATION_ERROR"

NonFinite == {NaN, PosInf, NegInf}

\* C6: buildNumberRangeFormula throws whenever min or max is NaN, +Infinity
\* or -Infinity, whichever bound it is and whatever the other bound is, and
\* no returned formula holds the text of a non-finite number
C6_NonFiniteBoundThrows ==
    Done("buildNumberRangeFormula") =>
        /\ (call.min \in NonFinite \/ call.max \in NonFinite) =>
              outcome.status = "threw"
        /\ outcome.status = "returned" =>
              /\ ~Includes(outcome.value, <<"N", "a", "N">>)
              /\ ~Includes(outcome.value, <<"I", "n", "f", "i", "n", "i", "t", "y">>)

\* C6 witness: a valid field name and a finite min, but max is Infinity: the
\* call threw the max error
C6_Witness ==
    /\ Done("buildNumberRangeFormula")
    /\ call.fieldName = <<"F">>
    /\ call.min = Num(1) /\ call.max = PosInf
    /\ outcome.status = "threw"
    /\ outcome.error.message = MsgMaxNotFinite

\* s follows a template in which "d" stands for a decimal digit and every
\* other character for itself
FollowsTemplate(s, template) ==
    /\ Len(s) = Len(template)
    /\ \A i \in 1..Len(template) :
          IF template[i] = "d" THEN s[i] \in Digits ELSE s[i] = template[i]

\* YYYY-MM-DD, optionally followed by THH:MM:SS and further characters
IsIsoShaped(s) ==
    \/ FollowsTemplate(s, <<"d", "d", "d", "d", "-", "d", "d", "-", "d", "d">>)
    \/ /\ Len(s) >= 19
       /\ FollowsTemplate(SubSeq(s, 1, 19),
              <<"d", "d", "d", "d", "-", "d", "d", "-", "d", "d", "T",
                "d", "d", ":", "d", "d", ":", "d", "d">>)

\* a date argument that was passed and does not have the ISO shape
BadDate(x) == x.t = "string" /\ ~IsIsoShaped(x.v)

\* C7 as stated: every startDate or endDate passed by the caller that does
\* not match the ISO-8601 pattern makes buildDateRangeFormula throw
C7_EveryNonMatchingDateThrows ==
    (Done("buildDateRangeFormula") /\ (BadDate(call.startDate) \/ BadDate(call.endDate)))
        => outcome.status = "threw"

\* C7 amended: every non-empty startDate or endDate that does not match the
\* ISO-8601 pattern makes buildDateRangeFormula throw; an empty string is
\* treated like an absent bound and contributes no leaf
C7_NonEmptyNonMatchingDateThrows ==
    Done("buildDateRangeFormula") =>
        /\ ((BadDate(call.startDate) /\ call.startDate.v # <<>>)
              \/ (BadDate(call.endDate) /\ call.endDate.v # <<>>))
             => outcome.status = "threw"
        /\ (outcome.status = "returned" /\ call.startDate = Str(<<>>)
              /\ call.endDate = Str(<<>>)) => outcome.value = TxtTrue

\* C7 witness: a valid field name and start date, and an end date that is a
\* date-time cut short: the call threw the end-date error
C7_Witness ==
    /\ Done("buildDateRangeFormula")
    /\ call.fieldName = <<"F">>
    /\ call.startDate = Str(ValidDate)
    /\ call.endDate = Str(SubSeq(ValidDateTime, 1, 16))
    /\ outcome.status = "threw"
    /\ outcome.error.message = MsgEndDateFormat

\* the numbers bucket labels are written with
BucketNumbers == (0..9) \cup {12, 17, 18, 24, 25, 34, 35, 44, 45, 65}

\* the well-formed labels 'low-high' and 'low+' with the bounds they name
BoundedBuckets ==
    {[label |-> NatToStr(low) \o <<"-">> \o NatToStr(high), low |-> low, high |-> high] :
        low \in BucketNumbers, high \in BucketNumbers}

UnboundedBuckets ==
    {[label |-> NatToStr(low) \o <<"+">>, low |-> low] : low \in BucketNumbers}

BoundedLabels == {b.label : b \in BoundedBuckets}

UnboundedLabels == {b.label : b \in UnboundedBuckets}

BoundedBucketOf == [l \in BoundedLabels |-> CHOOSE b \in BoundedBuckets : b.label = l]

UnboundedBucketOf == [l \in UnboundedLabels |-> CHOOSE b \in UnboundedBuckets : b.label = l]

\* whether the claim includes the bucket `label` for the query minAge..maxAge:
\* 'low-high' iff low <= maxAge and high >= minAge, 'low+' iff maxAge >= low;
\* any other label by the bounds parseAgeRange gives it, never when one of
\* them is NaN
BucketIncluded(label, minAge, maxAge) ==
    IF label \in BoundedLabels
    THEN BoundedBucketOf[label].low <= maxAge /\ BoundedBucketOf[label].high >= minAge
    ELSE IF label \in UnboundedLabels
    THEN maxAge >= UnboundedBucketOf[label].low
    ELSE LET range == parseAgeRange(label)
         IN  /\ range.minAge # NaN /\ range.maxAge # NaN
             /\ range.minAge.v <= maxAge
             /\ range.maxAge # Null => range.maxAge.v >= minAge

\* the labels of availableRanges the claim includes, in catalog order
BucketsIncluded(minAge, maxAge, availableRanges) ==
    SelectSeq(availableRanges, LAMBDA label : BucketIncluded(label, minAge, maxAge))

\* C8: findOverlappingAgeRanges never throws and returns exactly the labels
\* whose bucket overlaps the query range, in catalog order: 'low-high' iff
\* low <= maxAge and high >= minAge, 'low+' iff maxAge >= low, a label with a
\* NaN bound never; (29, 42) on the default catalog gives [25-34, 35-44]
C8_OverlapCorrect ==
    Done("findOverlappingAgeRanges") =>
        /\ outcome.status = "returned"
        /\ outcome.value
              = BucketsIncluded(call.minAge, call.maxAge, call.availableRanges)
        /\ (call.minAge = 29 /\ call.maxAge = 42
              /\ call.availableRanges = DefaultAgeRanges) =>
                outcome.value = << <<"2", "5", "-", "3", "4">>,
                                   <<"3", "5", "-", "4", "4">> >>

\* C8 witness: a catalog of a malformed label and a bounded bucket that
\* touches the query range only at its upper end
C8_Witness ==
    /\ Done("findOverlappingAgeRanges")
    /\ call.availableRanges = << <<"x">>, <<"3", "-", "4">> >>
    /\ call.minAge = 1 /\ call.maxAge = 3
    /\ outcome.value = << <<"3", "-", "4">> >>

\* leaves separated by ", "
CommaSeparated(leaves) ==
    Flatten([i \in 1..Len(leaves) |->
                IF i = 1 THEN leaves[i] ELSE <<",", " ">> \o leaves[i]])

\* {Field} = 'Bucket'
EqualityLeaf(field, bucket) ==
    <<"{">> \o field \o <<"}", " ", "=", " ", "'">> \o DoubledQuotes(bucket) \o <<"'">>

\* C9: buildAgeRangeFormula returns 'FALSE()' when no bucket overlaps, the
\* single leaf {Field} = 'Bucket' without OR when one overlaps, and OR(...) of
\* one leaf per overlapping bucket when several do, the leaves in the order
\* of the buckets in availableRanges
C9_AgeFormulaShape ==
    (Done("buildAgeRangeFormula") /\ outcome.status = "returned") =>
        LET buckets == BucketsIncluded(call.minAge, call.maxAge, call.availableRanges)
            leaves == [i \in 1..Len(buckets) |->
                          EqualityLeaf(Trim(call.fieldName), buckets[i])]
        IN  /\ Len(buckets) = 0 => outcome.value = TxtFalse
            /\ Len(buckets) = 1 => outcome.value = leaves[1]
            /\ Len(buckets) >= 2 =>
                  outcome.value = <<"O", "R", "(">> \o CommaSeparated(leaves) \o <<")">>
            /\ ReadFormula(outcome.value).literals = buckets

\* C9 witness: the second and the first bucket of the catalog overlap, in
\* that order, and the label written first sorts after the other
C9_Witness ==
    /\ Done("buildAgeRangeFormula")
    /\ outcome.status = "returned"
    /\ call.availableRanges = << <<"3", "-", "4">>, <<"1", "-", "2">> >>
    /\ ReadFormula(outcome.value).literals = call.availableRanges

\* FIND('<escaped value>', ARRAYJOIN({Field}))
MembershipLeaf(field, value) ==
    <<"F", "I", "N", "D", "(", "'">> \o DoubledQuotes(value)
        \o <<"'", ",", " ", "A", "R", "R", "A", "Y", "J", "O", "I", "N", "(", "{">>
        \o field \o <<"}", ")", ")">>

\* the resolved value list of a set-membership call: the values after fuzzy
\* resolution, or verbatim when no vocabulary is given or fuzzy matching is off
ResolvedOfCall ==
    IF Verbatim THEN call.values
    ELSE resolveOptionsWithFuzzyMatch(call.values, call.availableOptions)

\* C10: buildMultipleSelectHasAny as a function of the resolved value list:
\* empty gives 'FALSE()', one value the bare FIND leaf, two or more OR(...) of
\* one FIND leaf per resolved value
C10_HasAnyShape ==
    (Done("buildMultipleSelectHasAny") /\ outcome.status = "returned") =>
        LET leaves == [i \in 1..Len(ResolvedOfCall) |->
                          MembershipLeaf(Trim(call.fieldName), ResolvedOfCall[i])]
        IN  /\ Len(leaves) = 0 => outcome.value = TxtFalse
            /\ Len(leaves) = 1 => outcome.value = leaves[1]
            /\ Len(leaves) >= 2 =>
                  outcome.value = <<"O", "R", "(">> \o CommaSeparated(leaves) \o <<")">>

\* C10 witness: one value resolved by fuzzy matching to two options, so the
\* formula is an OR although a single value was given
C10_Witness ==
    /\ Done("buildMultipleSelectHasAny")
    /\ outcome.status = "returned"
    /\ Len(call.values) = 1 /\ ~Verbatim
    /\ Len(ResolvedOfCall) = 2
    /\ SubSeq(outcome.value, 1, 3) = <<"O", "R", "(">>

\* C11: buildMultipleSelectHasAll as a function of the resolved value list:
\* empty (no values given, or none resolved against the vocabulary) gives
\* 'TRUE()', and one or more values give AND(...) of one FIND leaf per
\* resolved value, a single leaf included
C11_HasAllShape ==
    (Done("buildMultipleSelectHasAll") /\ outcome.status = "returned") =>
        LET leaves == [i \in 1..Len(ResolvedOfCall) |->
                          MembershipLeaf(Trim(call.fieldName), ResolvedOfCall[i])]
        IN  /\ Len(leaves) = 0 => outcome.value = TxtTrue
            /\ Len(leaves) >= 1 =>
                  outcome.value = <<"A", "N", "D", "(">> \o CommaSeparated(leaves) \o <<")">>

\* C11 witness: a single value resolves to a single option and is wrapped
\* in AND
C11_Witness ==
    /\ Done("buildMultipleSelectHasAll")
    /\ outcome.status = "returned"
    /\ Len(call.values) = 1
    /\ Len(ResolvedOfCall) = 1
    /\ SubSeq(outcome.value, 1, 9) = <<"A", "N", "D", "(", "F", "I", "N", "D", "(">>

\* C11 witness of the vacuous case: values were given, and none resolved
C11_WitnessNothingResolved ==
    /\ Done("buildMultipleSelectHasAll")
    /\ Len(call.values) >= 1
    /\ Len(ResolvedOfCall) = 0
    /\ outcome = Returned(TxtTrue)

\* C12: buildMultipleSelectHasNone as a function of the resolved value list:
\* empty gives 'TRUE()', one value NOT(leaf) with no OR inside, two or more
\* NOT(OR(leaf, ...)), each leaf being FIND('<escaped value>',
\* ARRAYJOIN({Field}))
C12_HasNoneShape ==
    (Done("buildMultipleSelectHasNone") /\ outcome.status = "returned") =>
        LET leaves == [i \in 1..Len(ResolvedOfCall) |->
                          MembershipLeaf(Trim(call.fieldName), ResolvedOfCall[i])]
        IN  /\ Len(leaves) = 0 => outcome.value = TxtTrue
            /\ Len(leaves) = 1 =>
                  outcome.value = <<"N", "O", "T", "(">> \o leaves[1] \o <<")">>
            /\ Len(leaves) >= 2 =>
                  outcome.value = <<"N", "O", "T", "(", "O", "R", "(">>
                                      \o CommaSeparated(leaves) \o <<")", ")">>

\* C12 witness: two values resolve to one option, so the negation holds a
\* single leaf although two values were given
C12_Witness ==
    /\ Done("buildMultipleSelectHasNone")
    /\ outcome.status = "returned"
    /\ Len(call.values) = 2
    /\ Len(ResolvedOfCall) = 1
    /\ SubSeq(outcome.value, 1, 9) = <<"N", "O", "T", "(", "F", "I", "N", "D", "(">>

\* the vocabulary entries one token stands for: the first entry equal to it
\* ignoring case when there is one, otherwise every entry that contains it
\* ignoring case
EntriesFor(token, vocabulary) ==
    LET equal == {i \in 1..Len(vocabulary) :
                     ToLowerCase(vocabulary[i]) = ToLowerCase(token)}
        first == CHOOSE i \in equal : \A j \in equal : i <= j
    IN  IF equal # {} THEN {vocabulary[first]}
        ELSE {vocabulary[i] : i \in {j \in 1..Len(vocabulary) :
                 Includes(ToLowerCase(vocabulary[j]), ToLowerCase(token))}}

DuplicateFree(list) ==
    \A i, j \in 1..Len(list) : list[i] = list[j] => i = j

Elements(list) == {list[i] : i \in 1..Len(list)}

\* C13: with a non-empty vocabulary resolveOptionsWithFuzzyMatch returns a
\* duplicate-free list whose elements are the union over the tokens of the
\* entry equal to the token ignoring case, or, when there is none, of the
\* entries that contain it; with no vocabulary it returns the values unchanged
C13_FuzzyResolution ==
    Done("resolveOptionsWithFuzzyMatch") =>
        IF call.availableOptions = Undefined \/ call.availableOptions.v = <<>>
        THEN outcome.value = call.values
        ELSE /\ DuplicateFree(outcome.value)
             /\ Elements(outcome.value) =
                    UNION {EntriesFor(call.values[i], call.availableOptions.v) :
                              i \in 1..Len(call.values)}

\* a token and a vocabulary entry that are both the empty string
EmptyExactMatch ==
    /\ call.availableOptions # Undefined
    /\ <<>> \in Elements(call.availableOptions.v)
    /\ <<>> \in Elements(call.values)

\* C13 but for the empty entry: the statement of C13 for every call in which
\* the empty string is not both a token and a vocabulary entry
C13_FuzzyResolutionNonEmptyMatch ==
    (Done("resolveOptionsWithFuzzyMatch") /\ ~EmptyExactMatch) => C13_FuzzyResolution

\* C13: the empty token is equal to the empty entry and still resolves to
\* every entry of the vocabulary
C13_EmptyTokenResolvesToAll ==
    /\ Done("resolveOptionsWithFuzzyMatch")
    /\ call.values = << <<>> >>
    /\ EmptyExactMatch
    /\ Len(outcome.value) = 3

\* C13: one token equal to an entry ignoring case, another contained in two
\* entries, both resolved
C13_ExactAndSubstring ==
    /\ Done("resolveOptionsWithFuzzyMatch")
    /\ call.values = << <<"A">>, <<"b">> >>
    /\ outcome.value = << <<"A">>, <<"a", "b">> >>

\* the entries of formulas that are neither empty nor the sentinel, in order
RECURSIVE Survivors(_, _)
Survivors(formulas, sentinel) ==
    IF formulas = <<>> THEN <<>>
    ELSE IF Head(formulas) \in {<<>>, sentinel} THEN Survivors(Tail(formulas), sentinel)
    ELSE <<Head(formulas)>> \o Survivors(Tail(formulas), sentinel)

\* the text a combinator is to return for its survivors
Combined(name, sentinel, survivors) ==
    IF Len(survivors) = 0 THEN sentinel
    ELSE IF Len(survivors) = 1 THEN survivors[1]
    ELSE name \o <<"(">> \o CommaSeparated(survivors) \o <<")">>

\* C14: combineFormulasAnd drops 'TRUE()' and empty entries, combineFormulasOr
\* drops 'FALSE()' and empty entries; no survivor gives the identity
\* sentinel, one survivor gives that formula unchanged, several give
\* AND(a, b, ...) / OR(a, b, ...) in argument order
C14_CombinatorIdentities ==
    /\ Done("combineFormulasAnd") =>
          outcome.value = Combined(<<"A", "N", "D">>, TxtTrue,
                                   Survivors(call.formulas, TxtTrue))
    /\ Done("combineFormulasOr") =>
          outcome.value = Combined(<<"O", "R">>, TxtFalse,
                                   Survivors(call.formulas, TxtFalse))

\* C14 witness: combineFormulasAnd("TRUE()", "{A} = 'x'") returns "{A} = 'x'"
C14_Witness ==
    /\ Done("combineFormulasAnd")
    /\ call.formulas = <<TxtTrue, <<"{", "A", "}", " ", "=", " ", "'", "x", "'">> >>
    /\ outcome.value = call.formulas[2]

\* C14 witness for OR: the other operator's sentinel is kept, and two
\* survivors are wrapped
C14_WitnessOr ==
    /\ Done("combineFormulasOr")
    /\ call.formulas = <<TxtTrue, TxtFalse, <<"X", "(", ")">> >>
    /\ outcome.value = <<"O", "R", "(">> \o TxtTrue \o <<",", " ", "X", "(", ")", ")">>

\* the integer a decimal numeral stands for; numerals are an optional minus
\* sign and digits
RECURSIVE DigitsValue(_, _)
DigitsValue(t, acc) ==
    IF t = <<>> THEN acc ELSE DigitsValue(Tail(t), 10 * acc + DigitVal(Head(t)))

\* t is the shortest decimal numeral of the integer n
IsNumeralOf(t, n) ==
    LET digits == IF t # <<>> /\ Head(t) = "-" THEN Tail(t) ELSE t
    IN  /\ digits # <<>>
        /\ \A i \in 1..Len(digits) : digits[i] \in Digits
        /\ Len(digits) > 1 => digits[1] # "0"
        /\ (t[1] = "-") = (n < 0)
        /\ DigitsValue(digits, 0) = (IF n < 0 THEN 0 - n ELSE n)

\* text is `{Field} op n` for the trimmed field name of the call
IsComparison(text, op, n) ==
    LET head == <<"{">> \o Trim(call.fieldName) \o <<"}", " ">> \o op \o <<" ">>
    IN  /\ Len(text) > Len(head)
        /\ SubSeq(text, 1, Len(head)) = head
        /\ IsNumeralOf(SubSeq(text, Len(head) + 1, Len(text)), n)

\* text is AND(left, right) where left is the min leaf and right the max leaf
IsAndOfBounds(text, min, max) ==
    \E k \in 1..Len(text) - 1 :
        /\ SubSeq(text, k, k + 1) = <<",", " ">>
        /\ SubSeq(text, 1, 4) = <<"A", "N", "D", "(">>
        /\ text[Len(text)] = ")"
        /\ IsComparison(SubSeq(text, 5, k - 1), <<">", "=">>, min)
        /\ IsComparison(SubSeq(text, k + 2, Len(text) - 1), <<"<", "=">>, max)

Given(x) == x \notin {Undefined, Null}

\* C15: with finite bounds and an accepted field name, buildNumberRangeFormula
\* returns 'TRUE()' when neither bound is supplied, the leaf {Field} >= min or
\* {Field} <= max when one is, and AND({Field} >= min, {Field} <= max) when
\* both are
C15_NumberRangeShape ==
    (Done("buildNumberRangeFormula") /\ outcome.status = "returned") =>
        LET text == outcome.value
        IN  /\ (~Given(call.min) /\ ~Given(call.max)) => text = TxtTrue
            /\ (Given(call.min) /\ ~Given(call.max)) =>
                  IsComparison(text, <<">", "=">>, call.min.v)
            /\ (~Given(call.min) /\ Given(call.max)) =>
                  IsComparison(text, <<"<", "=">>, call.max.v)
            /\ (Given(call.min) /\ Given(call.max)) =>
                  IsAndOfBounds(text, call.min.v, call.max.v)

\* C15 witness: a negative min and a positive max, joined with AND
C15_Witness ==
    /\ Done("buildNumberRangeFormula")
    /\ call.fieldName = <<"F">>
    /\ call.min = Num(0 - 1) /\ call.max = Num(2)
    /\ outcome = Returned(<<"A", "N", "D", "(", "{", "F", "}", " ", ">", "=", " ", "-", "1",
                            ",", " ", "{", "F", "}", " ", "<", "=", " ", "2", ")">>)

\* C15 witness of a single bound: max is null and min is given
C15_WitnessOneBound ==
    /\ Done("buildNumberRangeFormula")
    /\ call.fieldName = <<"F">>
    /\ call.min = Num(0) /\ call.max = Null
    /\ outcome = Returned(<<"{", "F", "}", " ", ">", "=", " ", "0">>)

\* the tool call in progress or completed is airtable_smart_query
InSmartQuery == pc # "idle" /\ call.fn = "airtable_smart_query"

\* the formula of one condition: its builder's, by type and match type, with
\* fuzzy matching on and the default buckets when the caller says nothing; a
\* customFormula condition is its own formula
RoutedFormula(condition) ==
    LET fuzzy == condition.useFuzzyMatch # Bool(FALSE)
        buckets == IF condition.availableOptions = Undefined
                   THEN DefaultAgeRanges ELSE condition.availableOptions.v
    IN  CASE condition.type = "customFormula" -> condition.formula
          [] condition.type = "numberRange" ->
                buildNumberRangeFormula(condition.fieldName, condition.min,
                                        condition.max).value
          [] condition.type = "ageRange" ->
                buildAgeRangeFormula(condition.fieldName, condition.minAge,
                                     condition.maxAge, buckets).value
          [] condition.type = "multipleSelect" /\ condition.matchType = "hasAny" ->
                buildMultipleSelectHasAny(condition.fieldName, condition.values,
                                          condition.availableOptions, fuzzy).value
          [] condition.type = "multipleSelect" /\ condition.matchType = "hasAll" ->
                buildMultipleSelectHasAll(condition.fieldName, condition.values,
                                          condition.availableOptions, fuzzy).value
          [] condition.type = "multipleSelect" /\ condition.matchType = "hasNone" ->
                buildMultipleSelectHasNone(condition.fieldName, condition.values,
                                           condition.availableOptions, fuzzy).value

\* C16: the formula airtable_smart_query gives to client.listRecords is the
\* combinator over the formulas of its conditions, one per condition in
\* condition order: combineFormulasOr when combineWith is 'OR',
\* combineFormulasAnd when it is 'AND' or absent; the formula reported back
\* is the one that was sent
C16_SmartQueryDispatch ==
    (InSmartQuery /\ executor # <<>>) =>
        LET formulas == [i \in 1..Len(call.conditions) |->
                            RoutedFormula(call.conditions[i])]
        IN  /\ Len(executor) = 1
            /\ executor[1].filterByFormula =
                  (IF call.combineWith = "OR" THEN combineFormulasOr(formulas)
                   ELSE combineFormulasAnd(formulas))
            /\ outcome.status = "returned" =>
                  outcome.value.formula = executor[1].filterByFormula

\* C16 witness: an ageRange condition with the default buckets and a custom
\* formula, combined with OR and awaiting the executor
C16_Witness ==
    /\ pc = "awaiting" /\ call.fn = "airtable_smart_query"
    /\ call.combineWith = "OR"
    /\ Len(call.conditions) = 2
    /\ call.conditions[1].type = "ageRange"
    /\ call.conditions[2] = [type |-> "customFormula", formula |-> <<"X", "(", ")">>]
    /\ executor[1].filterByFormula =
          <<"O", "R", "(">>
              \o <<"O", "R", "(">>
              \o EqualityLeaf(<<"A">>, <<"2", "5", "-", "3", "4">>) \o <<",", " ">>
              \o EqualityLeaf(<<"A">>, <<"3", "5", "-", "4", "4">>) \o <<")">>
              \o <<",", " ", "X", "(", ")", ")">>

\* the builder of the i-th condition of the call throws
BuilderThrows(i) ==
    /\ call.conditions[i].type # "customFormula"
    /\ \/ sanitizeFieldName(call.conditions[i].fieldName).status = "threw"
       \/ /\ call.conditions[i].type = "numberRange"
          /\ \/ call.conditions[i].min \in NonFinite
             \/ call.conditions[i].max \in NonFinite

\* C17: when the builder of any condition of an airtable_smart_query call
\* throws, whatever its position, the call ends with an error result and
\* client.listRecords is not invoked for it
C17_FailFast ==
    (InSmartQuery /\ \E i \in 1..Len(call.conditions) : BuilderThrows(i)) =>
        /\ executor = <<>>
        /\ pc = "done"
        /\ outcome.status = "isError"
        /\ outcome.value.isError

\* C17 in steps: no step of such a call gives client.listRecords a request
C17_ExecutorNeverInvoked ==
    [][(call'.fn = "airtable_smart_query"
        /\ \E i \in 1..Len(call'.conditions) :
              /\ call'.conditions[i].type # "customFormula"
              /\ sanitizeFieldName(call'.conditions[i].fieldName).status = "threw")
       => executor' = <<>>]_vars

\* C17 witness: the first condition is valid and has a formula, the builder
\* of the second one throws, and the call is answered with an error
C17_Witness ==
    /\ Done("airtable_smart_query")
    /\ Len(call.conditions) = 2
    /\ smartQuerySchema(call)
    /\ ~BuilderThrows(1) /\ BuilderThrows(2)
    /\ outcome.status = "isError"
    /\ outcome.value.code = "INTERNAL_SERVER_ERROR"
    /\ executor = <<>>

\* the client messages the source writes out in full for an Error it wraps:
\* none of them is made from the wrapped message
FixedClientMessages ==
    { MsgInternalClient, MsgAuthenticationClient,
      <<"R", "e", "s", "o", "u", "r", "c", "e", " ">> \o TxtNotFound }

\* the call wrapped a plain Error, one that is no AirtableMCPError
WrappedPlainError == Done("wrapError") /\ call.error.class = "Error"

\* C18: for every Error that is not an AirtableMCPError the client message of
\* wrapError(e).toClientError() is made of nothing of e.message: it is one
\* of the fixed texts, whatever the message says
C18_NoInternalTextReachesClient ==
    WrappedPlainError => outcome.value.client.error \in FixedClientMessages

\* C18: the documented example, 'Database password: secret123', is answered
\* with the fixed internal-error text
C18_DocumentedExample ==
    /\ WrappedPlainError
    /\ call.error.message = MsgDatabasePassword
    /\ outcome.value.client.error = MsgInternalClient

\* C18: a message with the word API reaches the client whole
C18_ApiMessageReachesClient ==
    /\ WrappedPlainError
    /\ Includes(call.error.message, <<" ", "s", "e", "c", "r", "e", "t">>)
    /\ outcome.value.client.error = call.error.message

\* the message speaks of an authentication failure, ignoring case
IndicatesAuthenticationFailure(message) ==
    \E phrase \in { <<"u", "n", "a", "u", "t", "h", "o", "r", "i", "z", "e", "d">>,
                    <<"i", "n", "v", "a", "l", "i", "d", " ", "a", "p", "i", " ", "k", "e", "y">>,
                    <<"i", "n", "v", "a", "l", "i", "d", " ", "k", "e", "y">>,
                    <<"a", "u", "t", "h", "e", "n", "t", "i", "c", "a", "t", "i", "o", "n",
                      " ", "f", "a", "i", "l", "e", "d">> } :
        Includes(ToLowerCase(message), phrase)

\* C19: an Error whose message indicates an authentication failure is
\* wrapped as an AuthenticationError and the client is shown exactly
\* 'Authentication failed. Please check your API credentials.'
C19_AuthenticationErrorsWrapped ==
    (WrappedPlainError /\ IndicatesAuthenticationFailure(call.error.message)) =>
        /\ outcome.value.wrapped.class = "AuthenticationError"
        /\ outcome.value.client.error = MsgAuthenticationClient

\* C19: the documented example, 'Invalid key for user john@example.com', is
\* answered with the fixed authentication text
C19_DocumentedExample ==
    /\ WrappedPlainError
    /\ call.error.message = MsgInvalidKeyForUser
    /\ outcome.value.wrapped.class = "AuthenticationError"
    /\ outcome.value.client.error = MsgAuthenticationClient

\* C19: 'Invalid API key secret' is wrapped as an AirtableAPIError and shown
\* to the client
C19_InvalidApiKeyShown ==
    /\ WrappedPlainError
    /\ call.error.message =
          <<"I", "n", "v", "a", "l", "i", "d", " ", "A", "P", "I", " ", "k", "e", "y",
            " ", "s", "e", "c", "r", "e", "t">>
    /\ outcome.value.wrapped.class = "AirtableAPIError"
    /\ outcome.value.client.error = call.error.message

\* text[i..j] is a run of n or more alphanumerics that follows the three
\* letters of prefix, in either case, at i - 3
IsCredential(text, i, j, prefix, n) ==
    /\ i > 3 /\ j <= Len(text) /\ j - i + 1 >= n
    /\ ToLowerCase(SubSeq(text, i - 3, i - 1)) = prefix
    /\ \A k \in i..j : text[k] \in Alnum

\* the API keys, base IDs and record IDs written in text: key and a whole run
\* of 14 or more alphanumerics, app or rec and 14 alphanumerics
CredentialsOf(text, prefix) ==
    {SubSeq(text, i - 3, j) : <<i, j>> \in
        {<<i, j>> \in (1..Len(text)) \X (1..Len(text)) :
            /\ IsCredential(text, i, j, prefix, 14)
            /\ IF prefix = <<"k", "e", "y">>
               THEN j = Len(text) \/ text[j + 1] \notin Alnum
               ELSE j - i + 1 = 14}}

\* the words of text, each with the index of its first character: a word is
\* a longest run without white space
WordsAt(text) ==
    {<<i, SubSeq(text, i, j)>> : <<i, j>> \in
        {<<i, j>> \in (1..Len(text)) \X (1..Len(text)) :
            /\ i <= j
            /\ \A k \in i..j : text[k] \notin RegexSpace
            /\ i = 1 \/ text[i - 1] \in RegexSpace
            /\ j = Len(text) \/ text[j + 1] \in RegexSpace}}

\* the word that starts at index i of text follows the keyword Bearer, in any
\* case, and white space
FollowsBearer(text, i) ==
    \E b \in 1..(i - 7) :
        /\ ToLowerCase(SubSeq(text, b, b + 5)) = <<"b", "e", "a", "r", "e", "r">>
        /\ \A k \in (b + 6)..(i - 1) : text[k] \in RegexSpace

\* the tokens of text: the words that follow Bearer, and are written nowhere
\* else in text
BearerTokensOf(text) ==
    {w[2] : w \in {x \in WordsAt(text) : FollowsBearer(text, x[1])}}
        \ {w[2] : w \in {x \in WordsAt(text) : ~FollowsBearer(text, x[1])}}

Stars == <<"*", "*", "*">>

KeyCredentials(text) == CredentialsOf(text, <<"k", "e", "y">>)
BaseIds(text) == CredentialsOf(text, <<"a", "p", "p">>)
RecordIds(text) == CredentialsOf(text, <<"r", "e", "c">>)

\* the text shown holds no API key, base ID or record ID at all, none of
\* those of the message in particular, and has the mark *** when the message
\* had one (a mark can take in the prefix of the credential next to it, and
\* a credential that is the token of a Bearer keyword is shown as that token)
KeysAndIdsRedacted(message, shown) ==
    /\ KeyCredentials(shown) = {} /\ BaseIds(shown) = {} /\ RecordIds(shown) = {}
    /\ \A c \in KeyCredentials(message) \cup BaseIds(message) \cup RecordIds(message) :
          ~Includes(shown, c)
    /\ (KeyCredentials(message) \cup BaseIds(message) \cup RecordIds(message)) # {} =>
          Includes(shown, Stars)

\* no token of the message is a word of the text shown, and a word that
\* follows Bearer in the text shown starts with ***
BearerTokensRedacted(message, shown) ==
    /\ \A w \in WordsAt(shown) : w[2] \notin BearerTokensOf(message)
    /\ \A w \in WordsAt(shown) :
          FollowsBearer(shown, w[1]) =>
              Len(w[2]) >= 3 /\ SubSeq(w[2], 1, 3) = Stars

\* C20: the text AirtableAPIError.toClientError() returns holds no API key,
\* no base ID, no record ID and no token that followed Bearer in the message;
\* they are shown as key***, app***, rec*** and Bearer ***, several kinds in
\* one message included
C20_CredentialsRedacted ==
    Done("toClientError") =>
        /\ KeysAndIdsRedacted(call.error.message, outcome.value.error)
        /\ BearerTokensRedacted(call.error.message, outcome.value.error)

\* C20 for keys and identifiers alone
C20_KeysAndIdsRedacted ==
    Done("toClientError") =>
        KeysAndIdsRedacted(call.error.message, outcome.value.error)

\* C20: the documented message with a base ID, an API key and a record ID is
\* shown with all three redacted
C20_SeveralKindsRedacted ==
    /\ Done("toClientError")
    /\ call.error.message = MsgSeveralCredentials
    /\ Includes(outcome.value.error, <<"a", "p", "p">> \o Stars)
    /\ Includes(outcome.value.error, <<"k", "e", "y">> \o Stars)
    /\ Includes(outcome.value.error, <<"r", "e", "c">> \o Stars)

\* C20: the token that follows the second of two Bearer keywords is shown
C20_TokenAfterSecondBearerShown ==
    /\ Done("toClientError")
    /\ call.error.message =
          <<"B", "e", "a", "r", "e", "r", " ", "B", "e", "a", "r", "e", "r", " ",
            "t", "o", "k", ".", "1">>
    /\ outcome.value.error =
          <<"B", "e", "a", "r", "e", "r", " ", "*", "*", "*", " ", "t", "o", "k", ".", "1">>

\* the error sanitizeFieldName raises for a rejected name: forbidden
\* characters are looked for before the name is trimmed
FieldNameError(name) ==
    IF HasForbiddenChar(name) THEN MsgInvalidFieldName ELSE MsgFieldNameEmpty

\* the call would have returned a sentinel or raised a bound error had the
\* field name been accepted: no values, no bounds, or a bound that is rejected
DegenerateArguments ==
    \/ call.fn \in SelectBuilders /\ call.values = <<>>
    \/ call.fn = "buildAgeRangeFormula" /\ call.availableRanges = <<>>
    \/ call.fn = "buildNumberRangeFormula"
         /\ (call.min \in NonFinite \cup {Undefined, Null})
         /\ (call.max \in NonFinite \cup {Undefined, Null})
    \/ call.fn = "buildDateRangeFormula"
         /\ (~Truthy(call.startDate) \/ ~MatchesIsoDate(call.startDate.v))
         /\ (~Truthy(call.endDate) \/ ~MatchesIsoDate(call.endDate.v))

\* C24: eager validation.  Every builder checks the field name before
\* anything else: a call with a rejected field name throws the field-name
\* error, also when the values or bounds are empty (a valid name would have
\* given TRUE() or FALSE()) and also when a bound is invalid as well (the
\* field-name error is the one raised, not the bound error).
C24_EagerValidation ==
    (pc = "done" /\ call.fn \in Builders
        /\ (HasForbiddenChar(call.fieldName) \/ IsBlank(call.fieldName))) =>
            /\ outcome.status = "threw"
            /\ outcome.error.message = FieldNameError(call.fieldName)

\* C24 witness: a rejected field name together with a non-finite bound; the
\* field-name error was raised
C24_Witness ==
    /\ Done("buildNumberRangeFormula")
    /\ HasForbiddenChar(call.fieldName)
    /\ call.min = NaN /\ call.max = PosInf
    /\ DegenerateArguments
    /\ outcome.status = "threw"
    /\ outcome.error.message = MsgInvalidFieldName

\* C24 witness: a blank field name and no values; the call threw instead of
\* returning the sentinel
C24_WitnessNoValues ==
    /\ Done("buildMultipleSelectHasAll")
    /\ IsBlank(call.fieldName)
    /\ call.values = <<>>
    /\ DegenerateArguments
    /\ outcome.status = "threw"
    /\ outcome.error.message = MsgFieldNameEmpty

\* Grouping of a formula, read as the formula language reads it: a quote
\* outside a field reference opens a literal (doubled quotes inside it are
\* content), {...} is a field reference, and every other character is code.
\* g.st is the reader's state, g.depth the number of open parentheses, g.ok
\* whether no ')' came without its '(', no '}' without its '{', and no '{'
\* inside a field reference.
GroupChar(g, c) ==
    LET inCode == g.st.mode = "code" \/ (g.st.mode = "quote" /\ c # Quote)
        depth == IF inCode /\ c = "(" THEN g.depth + 1
                 ELSE IF inCode /\ c = ")" THEN g.depth - 1
                 ELSE g.depth
    IN  [st |-> ReadChar(g.st, c),
         depth |-> depth,
         ok |-> /\ g.ok
                /\ depth >= 0
                /\ ~(inCode /\ c = "}")
                /\ ~(g.st.mode = "field" /\ c = "{")]

RECURSIVE GroupRange(_, _, _, _)
GroupRange(f, lo, hi, g) ==
    IF lo > hi THEN g
    ELSE IF lo = hi THEN GroupChar(g, f[lo])
    ELSE LET mid == (lo + hi) \div 2
             half == GroupRange(f, lo, mid, g)
         IN  IF half.depth >= 0 \/ half.ok
             THEN GroupRange(f, mid + 1, hi, half)
             ELSE half

\* every '(' has its ')' and every '{' its '}', properly nested, and no
\* literal or field reference is left open
Balanced(f) ==
    LET g == GroupRange(f, 1, Len(f),
                        [st |-> [mode |-> "code", cur |-> <<>>, lits |-> <<>>],
                         depth |-> 0, ok |-> TRUE])
    IN  /\ g.ok
        /\ g.depth = 0
        /\ g.st.mode \in {"code", "quote"}

\* every condition of the smart query in progress is built by a builder
AllFromBuilders ==
    \A i \in 1..Len(call.conditions) : call.conditions[i].type # "customFormula"

C25_WitnessCombined ==
    /\ pc = "awaiting" /\ call.fn = "airtable_smart_query"
    /\ Len(call.conditions) = 2 /\ AllFromBuilders
    /\ \E i \in 1..2 : call.conditions[i].type = "multipleSelect"
                          /\ call.conditions[i].matchType = "hasNone"
    /\ \E i \in 1..2 : call.conditions[i].type = "numberRange"
    /\ \/ SubSeq(executor[1].filterByFormula, 1, 4) = TxtAnd
       \/ SubSeq(executor[1].filterByFormula, 1, 3) = TxtOr
    /\ Balanced(executor[1].filterByFormula)

\* a catalog of well-formed buckets: 'low-high' with low <= high, or 'low+'
WellFormedCatalog(availableRanges) ==
    \A i \in 1..Len(availableRanges) :
        \/ availableRanges[i] \in UnboundedLabels
        \/ /\ availableRanges[i] \in BoundedLabels
           /\ BoundedBucketOf[availableRanges[i]].low
                 <= BoundedBucketOf[availableRanges[i]].high

\* some integer age lies both in the bucket `label` and in minAge..maxAge
HoldsQueriedAge(label, minAge, maxAge) ==
    \E a \in minAge..maxAge :
        IF label \in UnboundedLabels
        THEN UnboundedBucketOf[label].low <= a
        ELSE BoundedBucketOf[label].low <= a /\ a <= BoundedBucketOf[label].high

\* buildAgeRangeFormula returned for ages of 0..150 and a well-formed catalog
AgeFormulaReturned ==
    /\ Done("buildAgeRangeFormula")
    /\ outcome.status = "returned"
    /\ call.minAge \in 0..150 /\ call.maxAge \in 0..150
    /\ WellFormedCatalog(call.availableRanges)

\* C26: for all integer minAge and maxAge in 0..150, in either order, and
\* every well-formed bucket catalog, each bucket named in the output of
\* buildAgeRangeFormula holds at least one integer age a with
\* minAge <= a <= maxAge; when minAge > maxAge the result is FALSE().
C26_NamedBucketsHoldQueriedAge ==
    AgeFormulaReturned =>
        /\ \A i \in 1..Len(ReadFormula(outcome.value).literals) :
              HoldsQueriedAge(ReadFormula(outcome.value).literals[i],
                              call.minAge, call.maxAge)
        /\ call.minAge > call.maxAge => outcome.value = TxtFalse

\* C26 for query ranges given in order: with minAge <= maxAge every named
\* bucket holds a queried age
C26_OrderedRangeBucketsHoldQueriedAge ==
    (AgeFormulaReturned /\ call.minAge <= call.maxAge) =>
        \A i \in 1..Len(ReadFormula(outcome.value).literals) :
            HoldsQueriedAge(ReadFormula(outcome.value).literals[i],
                            call.minAge, call.maxAge)

\* the inverted query 80..70 on the default catalog names the open bucket 65+
C26_InvertedRangeNamesBucket ==
    /\ AgeFormulaReturned
    /\ call.minAge = 80 /\ call.maxAge = 70
    /\ call.availableRanges = DefaultAgeRanges
    /\ outcome.value = AgeLeaf(Trim(call.fieldName), <<"6", "5", "+">>)

\* the fields the select request asks Airtable for: query.fields, or every
\* field of the table when the query names none
RequestedFields ==
    IF requests[1].query.fields.t = "undefined"
    THEN [i \in 1..Len(call.schema.fields) |-> call.schema.fields[i].name]
    ELSE requests[1].query.fields.v

\* airtable_list_records sent its request for a table with known fields, with
\* excludeFields and without an explicit list or a preset
ListedWithExclusions ==
    /\ pc = "requesting" /\ call.fn = "airtable_list_records"
    /\ call.args.fields = Undefined /\ call.args.preset = Undefined
    /\ call.args.excludeFields.t = "array"
    /\ Len(call.schema.fields) > 0

\* C21: airtable_list_records without an explicit fields list and without a
\* preset, for a table whose schema fields are known: no field named in
\* excludeFields is among the fields requested from Airtable, whatever the
\* values of excludeAttachments and excludeLongText.
C21_ExcludedFieldsNotRequested ==
    ListedWithExclusions =>
        \A i \in 1..Len(call.args.excludeFields.v) :
            ~Contains(RequestedFields, call.args.excludeFields.v[i])

\* C21 where no pattern filter is in force (excludeAttachments false,
\* excludeLongText false or absent): the excluded fields are not requested
C21_ExcludedWithoutPatternFilters ==
    (ListedWithExclusions /\ call.args.excludeAttachments = Bool(FALSE)
        /\ call.args.excludeLongText # Bool(TRUE)) =>
        \A i \in 1..Len(call.args.excludeFields.v) :
            ~Contains(RequestedFields, call.args.excludeFields.v[i])

\* with excludeAttachments left to its default, the excluded field Notes of a
\* table that also has the attachment field Photo is requested
C21_ExcludedFieldRequested ==
    /\ ListedWithExclusions
    /\ call.args.excludeFields = Arr(<<FldNotes>>)
    /\ call.args.excludeAttachments = Undefined
    /\ call.args.excludeLongText = Undefined
    /\ requests[1].query.fields = Arr(<<FldName, FldNotes>>)

\* a client method that writes records has run up to its request
WriteCalled == pc \in {"requesting", "done"} /\ call.fn \in ClientMethods

\* the entries of the records given to the call whose field the schema knows
\* with a type among `types`
EntriesOfType(types) ==
    { e \in UNION { {call.args.records[r][i] : i \in 1..Len(call.args.records[r])} :
                       r \in 1..Len(call.args.records) } :
        \E i \in 1..Len(call.schema.fields) :
            /\ call.schema.fields[i].name = e.name
            /\ call.schema.fields[i].type \in types }

\* the call threw without sending a request
ThrewWithoutRequest ==
    pc = "done" /\ outcome.status = "threw" /\ requests = <<>>

\* C22: createRecord, updateRecord, batchCreateRecords and batchUpdateRecords
\* given any value for a field whose known schema type is formula, rollup,
\* count, lookup, createdTime, createdBy, lastModifiedTime, lastModifiedBy,
\* autoNumber, aiText, aiImage or button throw an error and send no write
\* request to Airtable.
C22_ReadOnlyFieldsRejected ==
    (WriteCalled /\ EntriesOfType(ReadOnlyTypes) # {}) => ThrewWithoutRequest

\* C22 for the types formatFieldValue has a case for and values other than
\* null and undefined: the call throws and sends no request
C22_ComputedFieldValuesRejected ==
    (WriteCalled /\ \E e \in EntriesOfType(ComputedTypes) :
                        e.value \notin {Null, Undefined})
        => ThrewWithoutRequest

\* createRecord with a string for a formula field threw the read-only error
C22_FormulaRejected ==
    /\ WriteCalled
    /\ call.fn = "createRecord"
    /\ \E e \in EntriesOfType({"formula"}) : e.value = Str(<<"a">>)
    /\ outcome = Threw("Error", MsgReadOnly("formula"))
    /\ requests = <<>>

\* createRecord with a string for a button field has sent the create request
C22_ButtonWritten ==
    /\ pc = "requesting"
    /\ call.fn = "createRecord"
    /\ \E e \in EntriesOfType({"button"}) : e.value = Str(<<"a">>)
    /\ requests[1].kind = "create"
    /\ requests[1].fields = <<Entry(FldCalc, Str(<<"a">>))>>

\* updateRecord with null for a formula field has sent the update request
C22_NullWritten ==
    /\ pc = "requesting"
    /\ call.fn = "updateRecord"
    /\ \E e \in EntriesOfType({"formula"}) : e.value = Null
    /\ requests[1].kind = "update"
    /\ requests[1].fields = <<Entry(FldCalc, Null)>>

\* a batch method has run up to its request
BatchCalled ==
    pc \in {"requesting", "done"}
    /\ call.fn \in {"batchCreateRecords", "batchUpdateRecords"}

\* some field of some record of the batch fails validateFieldValue
FailsValidation ==
    \E r \in 1..Len(call.args.records) : \E i \in 1..Len(call.args.records[r]) :
        LET e == call.args.records[r][i]
            fieldMetadata == FindField(call.schema, e.name)
        IN  /\ fieldMetadata # Undefined
            /\ ~validateFieldValue(e.value, fieldMetadata).valid

\* C29: in batchCreateRecords and batchUpdateRecords, if the batch has more
\* than 10 items, or any field of any record fails validation or is of a
\* read-only type, the call throws before any create or update request is
\* sent to Airtable; an empty batch returns an empty list without any
\* request.
C29_BatchAllOrNothing ==
    BatchCalled =>
        /\ (Len(call.args.records) > 10 \/ FailsValidation
               \/ EntriesOfType(ReadOnlyTypes) # {}) => ThrewWithoutRequest
        /\ Len(call.args.records) = 0 =>
               (pc = "done" /\ outcome = Returned(Arr(<<>>)) /\ requests = <<>>)

\* C29 where the read-only types are those formatFieldValue has a case for
\* and the values set are not null or undefined
C29_LocalChecksPrecedeRequest ==
    BatchCalled =>
        /\ (Len(call.args.records) > 10 \/ FailsValidation
               \/ \E e \in EntriesOfType(ComputedTypes) :
                     e.value \notin {Null, Undefined}) => ThrewWithoutRequest
        /\ Len(call.args.records) = 0 =>
               (pc = "done" /\ outcome = Returned(Arr(<<>>)) /\ requests = <<>>)

\* a batch of two records whose second sets an invalid choice threw
C29_SecondRecordInvalid ==
    /\ BatchCalled
    /\ Len(call.args.records) = 2
    /\ call.args.records[1] = <<Entry(FldName, Str(<<"a">>))>>
    /\ call.args.records[2] = <<Entry(FldStatus, Str(<<"x">>))>>
    /\ call.schema # BasicSchema(TableT)
    /\ ThrewWithoutRequest

\* a batch of eleven valid records threw
C29_OverLimit ==
    /\ BatchCalled
    /\ Len(call.args.records) = 11
    /\ ~FailsValidation
    /\ EntriesOfType(ReadOnlyTypes) = {}
    /\ ThrewWithoutRequest

\* an empty batch returned the empty list
C29_EmptyBatch ==
    /\ BatchCalled
    /\ Len(call.args.records) = 0
    /\ outcome = Returned(Arr(<<>>))

\* a batch whose second record sets a button field has sent its request
C29_ButtonBatchSent ==
    /\ pc = "requesting"
    /\ call.fn = "batchCreateRecords"
    /\ EntriesOfType({"button"}) # {}
    /\ Len(requests[1].records) = 2

\* the configuration as the start-up accepts it: the token present, starting
\* with 'pat', of at least 20 characters; the base ID absent or 'app' and 14
\* more characters
AcceptableConfig ==
    /\ Len(config.apiKey) >= 20
    /\ SubSeq(config.apiKey, 1, 3) = <<"p", "a", "t">>
    /\ \/ config.baseId = <<>>
       \/ Len(config.baseId) = 3 + 14 /\ SubSeq(config.baseId, 1, 3) = <<"a",
         "p", "p">>

\* the credentials request was answered with a successful response
CredentialsAccepted ==
    credentials \in {Response(code) : code \in 200..299}

C23_ExitedOnRejectedToken ==
    phase = "exited" /\ credentials = Response(401)

\* the schemas of the table fetched from or set for a base: the base's
\* metadata, the basic schema of a failed fetch, and either with the fields
\* set for base A
SchemasOfBase(base) ==
    LET fetched == {MetadataSchema(base), BasicSchema(TableT)}
    IN  IF base = BaseA
        THEN fetched \cup {[s EXCEPT !.fields = SetFields] : s \in fetched}
        ELSE fetched

\* C27: on a client with no default base, the schema getTableSchema(table,
\* baseId) gives to a tool call was fetched from or set for that same base;
\* a schema cached for a table name under one base is never used for the
\* table of that name of another base.
C27_SchemaCacheIsolation ==
    config.baseId = <<>> =>
        \A i \in 1..Len(calls) :
            (calls[i].schema # Undefined /\ calls[i].args.baseId # Undefined)
                => calls[i].schema \in SchemasOfBase(calls[i].args.baseId.v)

\* a record whose Status is no choice of base B's table has been sent to
\* base B, validated against the schema fetched from base A
C27_ForeignSchemaUsed ==
    /\ config.baseId = <<>>
    /\ \E i \in 1..Len(calls) :
        /\ calls[i].tool = "airtable_create_record"
        /\ calls[i].args.baseId = Str(BaseB)
        /\ calls[i].schema = MetadataSchema(BaseA)
        /\ Len(requests[i]) = 1
        /\ requests[i][1].base = BaseB

\* the cached schema of the table is the one updateTableSchema stored
StoredByUpdate ==
    TableT \in DOMAIN tableSchemas /\ tableSchemas[TableT].fields = SetFields

\* C28: when updateTableSchema for a table has run while a getTableSchema
\* metadata fetch for the table is in flight in another tool call, the
\* schema it stored is still the cached schema once the fetch completes.
C28_NoLostSchemaUpdate ==
    [][\A i \in 1..Len(calls) :
          (calls[i].pc = "fetching" /\ calls[i].args.table = TableT
              /\ StoredByUpdate /\ calls'[i].pc # "fetching")
          => tableSchemas'[TableT] = tableSchemas[TableT]]_vars

\* airtable_set_table_schema has answered with success and the cache holds
\* the schema a fetch completed later
C28_UpdateLost ==
    /\ \E j \in 1..Len(calls) :
        /\ calls[j].tool = "airtable_set_table_schema"
        /\ responses[j] = <<ToolResult(TableT)>>
    /\ TableT \in DOMAIN tableSchemas
    /\ tableSchemas[TableT] = MetadataSchema(BaseA)

\* the result the catch block gives for an error
ClientErrorResult(class, message) ==
    LET clientError == toClientError(wrapError([class |-> class, message |->
      message]))
    IN  [isError |-> TRUE, error |-> clientError.error, code |->
      clientError.code]

\* arguments the tool's schema rejects: a record without fields
ArgumentsRejected(c) ==
    c.tool = "airtable_create_record" /\ c.args.fields = <<>>

\* a smart query whose field name the sanitizer rejects
BuilderFails(c) ==
    /\ c.tool = "airtable_smart_query"
    /\ \E k \in 1..Len(c.args.conditions) :
          \E j \in 1..Len(c.args.conditions[k].fieldName) :
              c.args.conditions[k].fieldName[j] = "\n"

\* a call on a table that names no base on a client without a default base
NoBaseToUse(c) ==
    /\ config.baseId = <<>>
    /\ c.tool \in {"airtable_list_records", "airtable_create_record",
                   "airtable_smart_query"}
    /\ c.args.baseId = Undefined

\* C30: every tool call gets at most one response, a call without one awaits
\* the network, and a failure at any step (argument validation, unknown
\* tool name, formula builder, schema lookup, Airtable request) is answered
\* by a result with isError true made by wrapError(error).toClientError();
\* a call that fails argument validation performs no Airtable request.
C30_OneResponsePerCall ==
    \A i \in 1..Len(calls) :
        LET c == calls[i]
        IN  /\ Len(responses[i]) <= 1
            /\ c.pc \in {"fetching", "requesting", "done"}
            /\ (c.pc = "done") <=> (Len(responses[i]) = 1)
            /\ ArgumentsRejected(c) =>
                  /\ responses[i] =
                        <<ClientErrorResult("ValidationError",
                          MsgInvalidToolArguments)>>
                  /\ requests[i] = <<>>
            /\ c.tool = "airtable_drop_table" =>
                  /\ responses[i] = <<ClientErrorResult("ValidationError",
                    MsgUnknownTool)>>
                  /\ requests[i] = <<>>
            /\ (BuilderFails(c) \/ NoBaseToUse(c)) =>
                  /\ Len(responses[i]) = 1
                  /\ responses[i][1].isError
                  /\ requests[i] = <<>>
            /\ (Len(responses[i]) = 1 /\ ~responses[i][1].isError) =>
                  \/ c.tool = "airtable_set_table_schema"
                  \/ Len(requests[i]) = 1
            /\ (Len(responses[i]) = 1 /\ responses[i][1].isError) =>
                  \E class \in {"ValidationError", "ConfigurationError",
                    "Error",
                                "NonError"} :
                     \E message \in {MsgInvalidToolArguments, MsgUnknownTool,
                                     MsgBaseIdRequired,
                                       MsgBaseIdRequiredForFetch}
                                    \cup {e.message : e \in ExecutorErrors}
                                    \cup {FieldNameError(<<"N", "\n">>)}
                                    \cup {validateFieldValue(Str(<<"a">>),
                                      f).error :
                                             f \in
                                               {MetadataSchema(BaseB).fields[2],
                                                    SetFields[1]}} :
                        responses[i][1] = ClientErrorResult(class, message)

\* a call with rejected arguments and a call whose request was rejected have
\* both been answered with an error
C30_Witness ==
    /\ Len(calls) = 2
    /\ ArgumentsRejected(calls[1])
    /\ Len(responses[1]) = 1
    /\ Len(requests[2]) = 1
    /\ Len(responses[2]) = 1
    /\ responses[2][1].isError

====
